---- MODULE Spec2Model ----
(***************************************************************************)
(* Verification model of the deterministic core of langgraph_playground:   *)
(*   - services/query_checker.py : the lexical SQL policy validator        *)
(*   - agents/evidence.py        : the derived-metric calculator           *)
(*                                                                         *)
(* SQL text is modelled as a sequence of lexemes.  A lexeme is a maximal   *)
(* run of word characters, one whitespace character, or one punctuation    *)
(* mark; two word lexemes are never adjacent in a text, so that the        *)
(* regular expressions of the validator can be evaluated lexeme by lexeme  *)
(* exactly as Python's re module evaluates them character by character.    *)
(***************************************************************************)
EXTENDS Integers, Sequences, FiniteSets, TLC

VARIABLES
    settings,               \* settings.default_limit / settings.max_limit
    ALLOWED_TABLES,         \* module-level set of query_checker.py
    SERVICE_SCOPED_TABLES,  \* module-level set of query_checker.py
    args,                   \* arguments of the check_query call
    calls,                  \* number of check_query calls made with args
    result,                 \* outcome of the latest call
    prevResult,             \* outcome of the call before it
    data,                   \* argument of _add_derived_metrics
    out,                    \* value returned by _add_derived_metrics
    derived,                \* "pending", or how _add_derived_metrics ended
    call,                   \* the evidence.py function applied and its arguments
    node,                   \* the node of the agent graph that runs next
    state,                  \* the AgentState the graph hands from node to node
    generated               \* number of generate_sql invocations of the run

vars == <<settings, ALLOWED_TABLES, SERVICE_SCOPED_TABLES, args, calls,
          result, prevResult, data, out, derived, call, node, state, generated>>

checkerVars == <<settings, ALLOWED_TABLES, SERVICE_SCOPED_TABLES, args, calls,
                 result, prevResult>>
evidenceVars == <<data, out, derived, call>>
agentVars == <<node, state, generated>>

(***************************************************************************)
(* Lexemes                                                                 *)
(***************************************************************************)
Whitespace == {" "}

\* the numeral of 4301 nines
HugeNumeral == "9..9(4301 digits)"

NumLexemes == {"3", "7", "50", "100", "1000", "2000", HugeNumeral}

WordLexemes ==
    {"SELECT", "select", "SeLeCt", "SELECTED", "FROM", "from", "JOIN", "join",
     "AS", "ON", "WHERE", "OR", "IN", "LIMIT", "limit", "OFFSET", "UNION",
     "WITH",
     "INSERT", "UPDATE", "DELETE", "ALTER", "DROP", "CREATE", "REPLACE",
     "TRUNCATE", "GRANT", "REVOKE", "update", "Delete", "dRoP",
     "updated_at", "a", "c", "d", "campaigns", "Campaigns", "ads", "secret",
     "Secret", "users", "service_id", "my_service_id"} \cup NumLexemes

\* str.lower()
lower(t) ==
    CASE t = "SELECT" -> "select" [] t = "SeLeCt" -> "select"
      [] t = "SELECTED" -> "selected" [] t = "FROM" -> "from"
      [] t = "JOIN" -> "join" [] t = "AS" -> "as" [] t = "ON" -> "on"
      [] t = "WHERE" -> "where" [] t = "OR" -> "or" [] t = "IN" -> "in"
      [] t = "LIMIT" -> "limit" [] t = "OFFSET" -> "offset"
      [] t = "UNION" -> "union" [] t = "WITH" -> "with"
      [] t = "INSERT" -> "insert"
      [] t = "UPDATE" -> "update" [] t = "DELETE" -> "delete"
      [] t = "ALTER" -> "alter" [] t = "DROP" -> "drop"
      [] t = "CREATE" -> "create" [] t = "REPLACE" -> "replace"
      [] t = "TRUNCATE" -> "truncate" [] t = "GRANT" -> "grant"
      [] t = "REVOKE" -> "revoke" [] t = "Delete" -> "delete"
      [] t = "dRoP" -> "drop" [] t = "Campaigns" -> "campaigns"
      [] t = "Secret" -> "secret"
      [] OTHER -> t

\* str.upper(); also the folding that re.I applies before comparing
upper(t) ==
    CASE t = "select" -> "SELECT" [] t = "SeLeCt" -> "SELECT"
      [] t = "from" -> "FROM" [] t = "join" -> "JOIN" [] t = "limit" -> "LIMIT"
      [] t = "update" -> "UPDATE" [] t = "Delete" -> "DELETE"
      [] t = "dRoP" -> "DROP" [] t = "updated_at" -> "UPDATED_AT"
      [] t = "a" -> "A" [] t = "c" -> "C" [] t = "d" -> "D"
      [] t = "campaigns" -> "CAMPAIGNS" [] t = "Campaigns" -> "CAMPAIGNS"
      [] t = "ads" -> "ADS" [] t = "secret" -> "SECRET"
      [] t = "Secret" -> "SECRET" [] t = "users" -> "USERS"
      [] t = "service_id" -> "SERVICE_ID"
      [] t = "my_service_id" -> "MY_SERVICE_ID"
      [] OTHER -> t

\* the lower-cased word lexemes in the order Python's sorted() gives strings
LexOrder ==
    <<"100", "1000", "2000", "3", "50", "7", "9..9(4301 digits)", "a", "ads",
      "alter", "as", "c", "campaigns", "create", "d", "delete", "drop", "from",
      "grant", "in", "insert", "join", "limit", "my_service_id", "offset",
      "on", "or", "replace", "revoke", "secret", "select", "selected",
      "service_id", "truncate", "union", "update", "updated_at", "users",
      "where", "with">>

Rank(s) == CHOOSE i \in 1..Len(LexOrder) : LexOrder[i] = s

RECURSIVE sorted(_)
\* sorted(set of str) -> list
sorted(S) ==
    IF S = {} THEN <<>>
    ELSE LET m == CHOOSE x \in S : \A y \in S : Rank(x) <= Rank(y)
         IN  <<m>> \o sorted(S \ {m})

\* int(): the numerals and their values
NumDigits(t) ==
    CASE t = "3" -> 1 [] t = "7" -> 1 [] t = "50" -> 2 [] t = "100" -> 3
      [] t = "1000" -> 4 [] t = "2000" -> 4 [] t = HugeNumeral -> 4301

IntValue(t) ==
    CASE t = "3" -> 3 [] t = "7" -> 7 [] t = "50" -> 50 [] t = "100" -> 100
      [] t = "1000" -> 1000 [] t = "2000" -> 2000

\* CPython's default sys.get_int_max_str_digits(): int(str) raises ValueError
\* for a numeral with more digits
INT_MAX_STR_DIGITS == 4300

\* str(int), as the f-strings of check_query format a limit
IntToStr(n) == CHOOSE t \in NumLexemes \ {HugeNumeral} : IntValue(t) = n

(***************************************************************************)
(* Character classes and string methods on texts                           *)
(***************************************************************************)
Tok(q, i) == IF i >= 1 /\ i <= Len(q) THEN q[i] ELSE ""

IsSpace(t) == t \in Whitespace
IsWord(t) == t \in WordLexemes
IsDigits(t) == t \in NumLexemes

\* a word boundary immediately before / after the word lexeme at i
BoundaryBefore(q, i) == ~IsWord(Tok(q, i - 1))
BoundaryAfter(q, i) == ~IsWord(Tok(q, i + 1))

RECURSIVE lstrip(_)
lstrip(q) == IF q # <<>> /\ IsSpace(Head(q)) THEN lstrip(Tail(q)) ELSE q

RECURSIVE rstrip(_)
rstrip(q) ==
    IF q # <<>> /\ IsSpace(q[Len(q)]) THEN rstrip(SubSeq(q, 1, Len(q) - 1))
    ELSE q

\* str.strip()
strip(q) == rstrip(lstrip(q))

RECURSIVE rstripSemicolons(_)
\* str.rstrip(";")
rstripSemicolons(q) ==
    IF q # <<>> /\ q[Len(q)] = ";"
    THEN rstripSemicolons(SubSeq(q, 1, Len(q) - 1))
    ELSE q

\* str.count(";")
count(q, ch) == Cardinality({i \in 1..Len(q) : q[i] = ch})

\* str.endswith(";")
endswith(q, ch) == q # <<>> /\ q[Len(q)] = ch

\* query.upper().startswith("SELECT")
StartsWithSelect(q) == q # <<>> /\ upper(q[1]) \in {"SELECT", "SELECTED"}

RECURSIVE SkipSpaces(_, _)
\* position after a maximal run of whitespace starting at i
SkipSpaces(q, i) ==
    IF i <= Len(q) /\ IsSpace(q[i]) THEN SkipSpaces(q, i + 1) ELSE i

(***************************************************************************)
(* Regular expressions of query_checker.py                                 *)
(***************************************************************************)
DenyWords ==
    {"INSERT", "UPDATE", "DELETE", "ALTER", "DROP", "CREATE", "REPLACE",
     "TRUNCATE", "GRANT", "REVOKE"}

\* DENY_RE compiled without re.I
DENY_RE_CaseSensitive(q) ==
    \E i \in 1..Len(q) :
        /\ q[i] \in DenyWords
        /\ BoundaryBefore(q, i)
        /\ BoundaryAfter(q, i)

\* DENY_RE.search(query)
DENY_RE(q) ==
    \E i \in 1..Len(q) :
        /\ upper(q[i]) \in DenyWords
        /\ BoundaryBefore(q, i)
        /\ BoundaryAfter(q, i)

\* DANGEROUS_RE.search(query): a comment marker, or a semicolon followed
\* (after optional whitespace) by a word character
DANGEROUS_RE(q) ==
    \E i \in 1..Len(q) :
        \/ q[i] \in {"--", "#", "/*", "*/"}
        \/ q[i] = ";" /\ IsWord(Tok(q, SkipSpaces(q, i + 1)))

\* NON_PLAIN_SQL_RE.search(query): whole-word WITH <word> AS, UNION,
\* INTERSECT or EXCEPT
NON_PLAIN_SQL_RE(q) ==
    \E i \in 1..Len(q) :
        /\ BoundaryBefore(q, i)
        /\ \/ upper(q[i]) \in {"UNION", "INTERSECT", "EXCEPT"}
              /\ BoundaryAfter(q, i)
           \/ /\ upper(q[i]) = "WITH"
              /\ IsSpace(Tok(q, i + 1))
              /\ LET j == SkipSpaces(q, i + 1)
                 IN  /\ IsWord(Tok(q, j))
                     /\ IsSpace(Tok(q, j + 1))
                     /\ LET k == SkipSpaces(q, j + 1)
                        IN  upper(Tok(q, k)) = "AS" /\ BoundaryAfter(q, k)

\* SUBQUERY_RE.search(query): an opening parenthesis, optional whitespace,
\* then SELECT ending at a word boundary
SUBQUERY_RE(q) ==
    \E i \in 1..Len(q) :
        /\ q[i] = "("
        /\ LET j == SkipSpaces(q, i + 1)
           IN  upper(Tok(q, j)) = "SELECT" /\ BoundaryAfter(q, j)

\* the lexeme of the backquote character
Backquote == "<backquote>"

OpenQuotes == {Backquote, "\"", "["}
CloseQuotes == {Backquote, "\"", "]"}

NoMatch == [ok |-> FALSE, group1 |-> <<>>, group2 |-> "", end |-> 0]

\* FROM_RE / JOIN_RE matched at position i (kw is "FROM" or "JOIN"):
\* whole-word KW, whitespace, group 1 = an optionally quoted word, then
\* optionally whitespace, an optional AS with whitespace, and group 2 = a word.
\* end is the position after the match
TableRefMatch(q, i, kw) ==
    IF ~(upper(Tok(q, i)) = kw /\ BoundaryBefore(q, i) /\ IsSpace(Tok(q, i + 1)))
    THEN NoMatch
    ELSE
    LET j  == SkipSpaces(q, i + 1)
        w  == IF Tok(q, j) \in OpenQuotes THEN j + 1 ELSE j
        e1 == IF Tok(q, w + 1) \in CloseQuotes THEN w + 2 ELSE w + 1
        a  == SkipSpaces(q, e1)
        b  == SkipSpaces(q, a + 1)
    IN  IF ~IsWord(Tok(q, w)) THEN NoMatch
        ELSE IF ~IsSpace(Tok(q, e1)) THEN
            [ok |-> TRUE, group1 |-> SubSeq(q, j, e1 - 1), group2 |-> "",
             end |-> e1]
        ELSE IF upper(Tok(q, a)) = "AS" /\ IsSpace(Tok(q, a + 1))
                /\ IsWord(Tok(q, b)) THEN
            [ok |-> TRUE, group1 |-> SubSeq(q, j, e1 - 1), group2 |-> q[b],
             end |-> b + 1]
        ELSE IF IsWord(Tok(q, a)) THEN
            [ok |-> TRUE, group1 |-> SubSeq(q, j, e1 - 1), group2 |-> q[a],
             end |-> a + 1]
        ELSE
            [ok |-> TRUE, group1 |-> SubSeq(q, j, e1 - 1), group2 |-> "",
             end |-> e1]

\* re.sub(...).lower(): drop one leading and one trailing quoting character
_normalize_identifier(name) ==
    LET s1 == IF name # <<>> /\ Head(name) \in OpenQuotes THEN Tail(name)
              ELSE name
        s2 == IF s1 # <<>> /\ s1[Len(s1)] \in CloseQuotes
              THEN SubSeq(s1, 1, Len(s1) - 1) ELSE s1
    IN  IF Len(s2) = 1 THEN lower(s2[1]) ELSE ""

RECURSIVE finditer(_, _, _)
\* pattern.finditer(query): the non-overlapping matches, scanning from i;
\* the tables that the loop of _extract_tables adds for this pattern
finditer(q, i, kw) ==
    IF i > Len(q) THEN {}
    ELSE LET m == TableRefMatch(q, i, kw)
         IN  IF m.ok
             THEN {_normalize_identifier(m.group1)} \cup finditer(q, m.end, kw)
             ELSE finditer(q, i + 1, kw)

\* _extract_tables(query)[0]
_extract_tables(q) == finditer(q, 1, "FROM") \cup finditer(q, 1, "JOIN")

\* HAS_LIMIT_RE matched at position i:
\* whole-word LIMIT, whitespace, group 1 = digits, an optional comma with
\* digits, an optional semicolon, then the end of the text
LimitMatchAt(q, i) ==
    /\ upper(Tok(q, i)) = "LIMIT"
    /\ BoundaryBefore(q, i)
    /\ IsSpace(Tok(q, i + 1))
    /\ LET n  == SkipSpaces(q, i + 1)
           c  == SkipSpaces(q, n + 1)
           m  == SkipSpaces(q, c + 1)
           e  == IF Tok(q, c) = "," /\ IsDigits(Tok(q, m)) THEN m + 1 ELSE n + 1
           s  == SkipSpaces(q, e)
           z  == IF Tok(q, s) = ";" THEN SkipSpaces(q, s + 1) ELSE s
       IN  IsDigits(Tok(q, n)) /\ z = Len(q) + 1

\* HAS_LIMIT_RE.search(query): position of the match, 0 when there is none
HAS_LIMIT_RE(q) ==
    IF \E i \in 1..Len(q) : LimitMatchAt(q, i)
    THEN CHOOSE i \in 1..Len(q) :
            LimitMatchAt(q, i) /\ \A k \in 1..(i - 1) : ~LimitMatchAt(q, k)
    ELSE 0

\* _extract_limit(query): None (<<>>), a number (<<n>>), or ValueError raised
\* by int()
_extract_limit(q) ==
    LET i == HAS_LIMIT_RE(q)
        g == Tok(q, SkipSpaces(q, i + 1))
    IN  IF i = 0 THEN [raised |-> FALSE, value |-> <<>>]
        ELSE IF NumDigits(g) > INT_MAX_STR_DIGITS
             THEN [raised |-> TRUE, value |-> <<>>]
             ELSE [raised |-> FALSE, value |-> <<IntValue(g)>>]

\* HAS_LIMIT_RE.sub(f"LIMIT {max_limit}", query)
LimitSub(q, max_limit) ==
    LET i == HAS_LIMIT_RE(q)
    IN  IF i = 0 THEN q
        ELSE SubSeq(q, 1, i - 1) \o <<"LIMIT", " ", IntToStr(max_limit)>>

\* the column service_id at position s, optionally qualified (word, dot),
\* starting at a word boundary
ServiceIdAt(q, s) ==
    /\ upper(Tok(q, s)) = "SERVICE_ID"
    /\ \/ BoundaryBefore(q, s)
       \/ Tok(q, s - 1) = "." /\ IsWord(Tok(q, s - 2)) /\ BoundaryBefore(q, s - 2)

\* SERVICE_ID_PLACEHOLDER_RE.search(query)
SERVICE_ID_PLACEHOLDER_RE(q) ==
    \E s \in 1..Len(q) :
        /\ ServiceIdAt(q, s)
        /\ LET p == SkipSpaces(q, s + 1)
               r == SkipSpaces(q, p + 1)
           IN  /\ Tok(q, p) = "="
               /\ Tok(q, r) = ":"
               /\ upper(Tok(q, r + 1)) = "SERVICE_ID"
               /\ BoundaryAfter(q, r + 1)

\* SERVICE_ID_NUMERIC_RE.search(query)
SERVICE_ID_NUMERIC_RE(q) ==
    \E s \in 1..Len(q) :
        /\ ServiceIdAt(q, s)
        /\ LET p == SkipSpaces(q, s + 1)
               r == SkipSpaces(q, p + 1)
           IN  /\ Tok(q, p) = "="
               /\ IsDigits(Tok(q, r))
               /\ BoundaryAfter(q, r)

\* SERVICE_ID_IN_RE.search(query)
SERVICE_ID_IN_RE(q) ==
    \E s \in 1..Len(q) :
        /\ ServiceIdAt(q, s)
        /\ IsSpace(Tok(q, s + 1))
        /\ LET p == SkipSpaces(q, s + 1)
           IN  upper(Tok(q, p)) = "IN" /\ Tok(q, SkipSpaces(q, p + 1)) = "("

(***************************************************************************)
(* check_query                                                             *)
(***************************************************************************)
\* Optional[int] arguments: <<>> is None, <<n>> is the integer n
NoneInt == <<>>

\* QueryCheckResult(is_valid, query, error); names is the table list that the
\* error message of the table step interpolates
QueryCheckResult(is_valid, query, error, names) ==
    [outcome |-> "returned", is_valid |-> is_valid, query |-> query,
     error |-> error, names |-> names]

Reject(error) == QueryCheckResult(FALSE, <<>>, error, <<>>)

\* an exception propagating out of check_query: no QueryCheckResult exists
Raised(exc) ==
    [outcome |-> "raised", is_valid |-> FALSE, query |-> <<>>, error |-> exc,
     names |-> <<>>]

\* the allow-list not subtracted
Disallowed_AllowListIgnored(tables) == tables

\* disallowed = tables - ALLOWED_TABLES
Disallowed(tables) == tables \ ALLOWED_TABLES

\* the maximum appended in place of the default
AppendDefaultLimit_UsesMaxLimit(q) ==
    q \o <<" ", "LIMIT", " ", IntToStr(settings.max_limit)>>

\* query = f"{query} LIMIT {settings.default_limit}"
AppendDefaultLimit(q) ==
    q \o <<" ", "LIMIT", " ", IntToStr(settings.default_limit)>>

\* the rejection of more than one separator left out
MultipleStatements_MidTextOnly(q1) ==
    count(q1, ";") = 1 /\ ~endswith(rstrip(q1), ";")

\* step 3 of check_query: semicolon_count > 1, or semicolon_count == 1 and
\* the text does not end with the separator
MultipleStatements(q1) ==
    \/ count(q1, ";") > 1
    \/ count(q1, ";") = 1 /\ ~endswith(rstrip(q1), ";")

\* steps 8 to 10 of check_query, on the trimmed text q
CheckTablesScopeLimit(q, service_id, max_limit) ==
    LET tables == _extract_tables(q)
        disallowed == Disallowed(tables)
        scoped_tables == tables \cap SERVICE_SCOPED_TABLES
        current_limit == _extract_limit(q)
    IN  IF tables = {} THEN Reject("NO_TABLE")
        ELSE IF disallowed # {} THEN
            QueryCheckResult(FALSE, <<>>, "TABLE_NOT_ALLOWED", sorted(disallowed))
        ELSE IF /\ SERVICE_SCOPED_TABLES # {}
                /\ service_id # NoneInt
                /\ scoped_tables # {}
                /\ (SERVICE_ID_NUMERIC_RE(q) \/ SERVICE_ID_IN_RE(q))
        THEN Reject("SERVICE_ID_PLACEHOLDER")
        ELSE IF /\ SERVICE_SCOPED_TABLES # {}
                /\ service_id # NoneInt
                /\ scoped_tables # {}
                /\ ~SERVICE_ID_PLACEHOLDER_RE(q)
        THEN Reject("SERVICE_ID_REQUIRED")
        ELSE IF current_limit.raised THEN Raised("ValueError")
        ELSE IF current_limit.value = NoneInt THEN
            QueryCheckResult(TRUE, AppendDefaultLimit(q), "", <<>>)
        ELSE IF current_limit.value[1] > max_limit THEN
            QueryCheckResult(TRUE, LimitSub(q, max_limit), "", <<>>)
        ELSE QueryCheckResult(TRUE, q, "", <<>>)

\* check_query(query, service_id, allow_subqueries, max_limit)
check_query(query, service_id, allow_subqueries, max_limit_arg) ==
    LET max_limit == IF max_limit_arg = NoneInt THEN settings.max_limit
                     ELSE max_limit_arg[1]
        q1 == strip(query)
        q == strip(rstripSemicolons(q1))
    IN  IF q1 = <<>> THEN Reject("EMPTY_QUERY")
        ELSE IF MultipleStatements(q1) THEN Reject("MULTIPLE_STATEMENTS")
        ELSE IF ~StartsWithSelect(q) THEN Reject("SELECT_ONLY")
        ELSE IF DENY_RE(q) THEN Reject("DML_DDL")
        ELSE IF DANGEROUS_RE(q) THEN Reject("DANGEROUS_SYNTAX")
        ELSE IF NON_PLAIN_SQL_RE(q) THEN Reject("NON_PLAIN_SQL")
        ELSE IF ~allow_subqueries /\ SUBQUERY_RE(q) THEN Reject("SUBQUERY")
        ELSE CheckTablesScopeLimit(q, service_id, max_limit)

(***************************************************************************)
(* Inputs: the SQL texts handed to check_query                             *)
(***************************************************************************)
\* A text is the concatenation of eight clauses.  Each clause has a plain
\* form (the first of its list) and variants; a text deviates from the plain
\* query "SELECT a FROM campaigns" in at most MaxDeviations clauses.
MaxDeviations == 2

LeadForms == << <<>>, <<" ">> >>

HeadForms ==
    << <<"SELECT">>, <<"select">>, <<"SeLeCt">>, <<"SELECTED">>, <<"DROP">>,
       <<>> >>

ColumnForms ==
    << <<" ", "a">>, <<" ", "updated_at">>,
       <<" ", "INSERT">>, <<" ", "UPDATE">>, <<" ", "DELETE">>,
       <<" ", "ALTER">>, <<" ", "DROP">>, <<" ", "CREATE">>,
       <<" ", "REPLACE">>, <<" ", "TRUNCATE">>, <<" ", "GRANT">>,
       <<" ", "REVOKE">>, <<" ", "update">>, <<" ", "Delete">>,
       <<" ", "dRoP">>,
       <<" ", "(", "SELECT", " ", "a", ")">>,
       <<" ", "a", " ", "--">>,
       <<" ", "WITH", " ", "c", " ", "AS">>,
       <<" ", "a", " ", "UNION">> >>

FromForms ==
    << <<" ", "FROM", " ", "campaigns">>,
       <<" ", "from", " ", "Campaigns", " ", "c">>,
       <<" ", "FROM", " ", Backquote, "ads", Backquote, " ", "AS", " ", "d">>,
       <<" ", "FROM", " ", "[", "campaigns", "]">>,
       <<" ", "FROM", " ", "secret">>,
       <<" ", "FROM", " ", "\"", "Secret", "\"">>,
       <<" ", "FROM", " ", "users", ",", " ", "secret">>,
       <<>> >>

JoinForms ==
    << <<>>,
       <<" ", "JOIN", " ", "ads">>,
       <<" ", "join", " ", "secret">>,
       <<" ", "JOIN", " ", "ads", " ", "JOIN", " ", "secret">>,
       <<" ", "JOIN", " ", "ads", " ", "d", " ", "JOIN", " ", "secret">>,
       <<" ", "JOIN", " ", "users", " ", "JOIN", " ", "secret">>,
       <<" ", "JOIN", " ", "ads", " ", "JOIN", " ", "campaigns">>,
       <<" ", "JOIN", " ", "(", "SELECT", " ", "a", " ", "FROM", " ", "ads",
         ")", " ", "d">> >>

WhereForms ==
    << <<>>,
       <<" ", "WHERE", " ", "service_id", " ", "=", " ", ":", "service_id">>,
       <<" ", "WHERE", " ", "c", ".", "service_id", "=", ":", "service_id">>,
       <<" ", "WHERE", " ", "service_id", " ", "=", " ", "3">>,
       <<" ", "WHERE", " ", "service_id", " ", "IN", " ", "(", "3", ")">>,
       <<" ", "WHERE", " ", "service_id", " ", "=", " ", ":", "service_id",
         " ", "OR", " ", "service_id", " ", "=", " ", "3">>,
       <<" ", "WHERE", " ", "service_id", " ", "=", " ", ":", "service_id",
         " ", "OR", " ", "service_id", " ", "IN", "(", "3", ")">>,
       <<" ", "WHERE", " ", "my_service_id", " ", "=", " ", ":", "service_id">>,
       <<" ", "WHERE", " ", "a", " ", "=", " ", "3">> >>

LimitForms ==
    << <<>>,
       <<" ", "LIMIT", " ", "7">>,
       <<" ", "limit", " ", "50">>,
       <<" ", "LIMIT", " ", "2000">>,
       <<" ", "LIMIT", " ", "3", ",", " ", "2000">>,
       <<" ", "LIMIT", " ", HugeNumeral>>,
       <<" ", "LIMIT", " ", "2000", " ", "OFFSET", " ", "3">>,
       <<" ", "LIMIT">> >>

TailForms ==
    << <<>>, <<";">>, <<" ", ";", " ">>, <<";", ";">>,
       <<";", " ", "SELECT", " ", "a">> >>

Clauses ==
    <<LeadForms, HeadForms, ColumnForms, FromForms, JoinForms, WhereForms,
      LimitForms, TailForms>>

RECURSIVE Texts(_, _)
\* the texts made of clauses k.. with at most dev of them not in plain form
Texts(k, dev) ==
    IF k > Len(Clauses) THEN {<<>>}
    ELSE {Clauses[k][1] \o r : r \in Texts(k + 1, dev)}
         \cup (IF dev = 0 THEN {}
               ELSE UNION {{Clauses[k][v] \o r : r \in Texts(k + 1, dev - 1)} :
                            v \in 2..Len(Clauses[k])})

\* texts without a statement
BlankTexts == {<<>>, <<" ">>, <<";">>, <<" ", ";", " ">>}

Queries == Texts(1, MaxDeviations) \cup BlankTexts

\* the arguments of a call
Args ==
    [query : Queries, service_id : {NoneInt, <<1>>},
     allow_subqueries : BOOLEAN, max_limit : {NoneInt, <<7>>}]

(***************************************************************************)
(* Process-wide configuration                                              *)
(***************************************************************************)
\* settings.max_retries, settings.default_limit and settings.max_limit as
\* settings.py declares them
MaxRetries == 3
DefaultLimit == 100
MaxLimit == 1000

ShippedSettings ==
    [max_retries |-> MaxRetries, default_limit |-> DefaultLimit,
     max_limit |-> MaxLimit]

\* ALLOWED_TABLES as query_checker.py defines it
ShippedAllowedTables ==
    {"services", "ad_accounts", "campaigns", "ad_groups", "keywords", "ads",
     "targeting_settings", "search_queries",
     "search_query_keyword_ad_daily_stats", "display_ad_daily_stats",
     "campaign_daily_stats"}

\* the process-wide configurations a deployment sets: the shipped one, and
\* one with other limits (environment), one more table and a mandatory-scope
\* table
Configurations ==
    { [settings |-> ShippedSettings, ALLOWED_TABLES |-> ShippedAllowedTables,
       SERVICE_SCOPED_TABLES |-> {}],
      [settings |-> [max_retries |-> MaxRetries, default_limit |-> 7,
                     max_limit |-> 50],
       ALLOWED_TABLES |-> ShippedAllowedTables \cup {"users"},
       SERVICE_SCOPED_TABLES |-> {"campaigns"}] }

NoResult ==
    [outcome |-> "none", is_valid |-> FALSE, query |-> <<>>, error |-> "",
     names |-> <<>>]

(***************************************************************************)
(* The validator as a state machine                                        *)
(***************************************************************************)
\* calls of check_query made with the same arguments in one run
MaxCalls == 2

NoRows == <<>>

\* no function of evidence.py has been given arguments
NoCall == [fn |-> "none", rows |-> <<>>, dimension |-> <<>>, metric_cols |-> <<>>]

\* the agent graph is not invoked
NoRun ==
    /\ node = "none"
    /\ state = <<>>
    /\ generated = 0

Init ==
    /\ settings = ShippedSettings
    /\ ALLOWED_TABLES = ShippedAllowedTables
    /\ SERVICE_SCOPED_TABLES = {}
    /\ args \in Args
    /\ calls = 0
    /\ result = NoResult
    /\ prevResult = NoResult
    /\ data = NoRows
    /\ out = NoRows
    /\ derived = "pending"
    /\ call = NoCall
    /\ NoRun

\* the process-wide configuration is replaced (environment of settings.py,
\* assignment to the module-level sets of query_checker.py)
Configure(c) ==
    /\ calls < MaxCalls
    /\ c.settings # settings \/ c.SERVICE_SCOPED_TABLES # SERVICE_SCOPED_TABLES
       \/ c.ALLOWED_TABLES # ALLOWED_TABLES
    /\ settings' = c.settings
    /\ ALLOWED_TABLES' = c.ALLOWED_TABLES
    /\ SERVICE_SCOPED_TABLES' = c.SERVICE_SCOPED_TABLES
    /\ UNCHANGED <<args, calls, result, prevResult>>
    /\ UNCHANGED evidenceVars
    /\ UNCHANGED agentVars

\* check_query(args.query, args.service_id, args.allow_subqueries,
\*             args.max_limit) is called and returns or raises
CheckQuery ==
    /\ calls < MaxCalls
    /\ result' = check_query(args.query, args.service_id,
                             args.allow_subqueries, args.max_limit)
    /\ prevResult' = result
    /\ calls' = calls + 1
    /\ UNCHANGED <<settings, ALLOWED_TABLES, SERVICE_SCOPED_TABLES, args>>
    /\ UNCHANGED evidenceVars
    /\ UNCHANGED agentVars

Next ==
    \/ \E c \in Configurations : Configure(c)
    \/ CheckQuery

Spec == Init /\ [][Next]_vars

(***************************************************************************)
(* Vocabulary of the properties                                            *)
(***************************************************************************)
Returned(r) == r.outcome = "returned"
Accepted(r) == r.outcome = "returned" /\ r.is_valid
Rejected(r) == r.outcome = "returned" /\ ~r.is_valid

\* this step is a call of check_query
CallStep == calls' = calls + 1

\* the whole word kw (lower case) stands at position i, in any letter case
KeywordAt(q, i, kw) ==
    /\ i \in 1..Len(q)
    /\ lower(q[i]) = kw
    /\ ~IsWord(Tok(q, i - 1))
    /\ ~IsWord(Tok(q, i + 1))

DenyKeywords ==
    {"insert", "update", "delete", "alter", "drop", "create", "replace",
     "truncate", "grant", "revoke"}

ContainsDenyKeyword(q) ==
    \E i \in 1..Len(q) : \E kw \in DenyKeywords : KeywordAt(q, i, kw)

\* the trimmed text, and the text after the trailing separator is stripped
Trimmed(q) == strip(q)
Body(q) == strip(rstripSemicolons(strip(q)))

\* the text passes steps 1 to 4: not empty, at most one separator and that
\* one last, begins with SELECT
PassesSyntaxSteps(q) ==
    /\ Trimmed(q) # <<>>
    /\ count(Trimmed(q), ";") <= 1
    /\ count(Trimmed(q), ";") = 1 => Trimmed(q)[Len(Trimmed(q))] = ";"
    /\ Body(q) # <<>>
    /\ lower(Body(q)[1]) \in {"select", "selected"}

SyntaxErrors == {"EMPTY_QUERY", "MULTIPLE_STATEMENTS", "SELECT_ONLY"}
PolicyErrors == {"DML_DDL", "DANGEROUS_SYNTAX", "NON_PLAIN_SQL", "SUBQUERY"}

\* the call got past steps 1 to 8 (syntax and policy)
PassedPolicy(r) ==
    r.outcome # "none" /\ r.error \notin (SyntaxErrors \cup PolicyErrors)

\* the kinds of section 7 of the specification
KindOf(error) ==
    CASE error \in SyntaxErrors -> "Syntax"
      [] error \in PolicyErrors -> "Policy"
      [] error = "TABLE_NOT_ALLOWED" -> "TableNotAllowed"
      [] error \in {"SERVICE_ID_PLACEHOLDER", "SERVICE_ID_REQUIRED"} ->
            "ScopeRequired"
      [] error = "NO_TABLE" -> "NoTableIdentified"
      [] OTHER -> "Unknown"

SpecKinds == {"Syntax", "Policy", "TableNotAllowed", "ScopeRequired"}

\* every table identifier that follows a whole-word FROM or JOIN and
\* whitespace, quoting characters removed and lower-cased
ReferencedTables(q) ==
    { lower(q[w]) : w \in
        { w \in 1..Len(q) :
            /\ IsWord(q[w])
            /\ \E i \in 1..Len(q) :
                /\ KeywordAt(q, i, "from") \/ KeywordAt(q, i, "join")
                /\ IsSpace(Tok(q, i + 1))
                /\ \/ w = SkipSpaces(q, i + 1)
                   \/ /\ w = SkipSpaces(q, i + 1) + 1
                      /\ q[w - 1] \in OpenQuotes } }

LimitKeywordPositions(q) == {i \in 1..Len(q) : lower(q[i]) = "limit"}

\* the numeral of the trailing LIMIT clause of a text, "" when it has none
TrailingLimit(q) ==
    IF HAS_LIMIT_RE(q) = 0 THEN ""
    ELSE Tok(q, SkipSpaces(q, HAS_LIMIT_RE(q) + 1))

\* the text before its trailing LIMIT clause
WithoutLimit(q) ==
    IF HAS_LIMIT_RE(q) = 0 THEN q ELSE strip(SubSeq(q, 1, HAS_LIMIT_RE(q) - 1))

\* the numeral t denotes a number greater than m
Exceeds(t, m) == t = HugeNumeral \/ (t \in NumLexemes /\ IntValue(t) > m)

\* the maximum in force for the call
EffectiveMax ==
    IF args.max_limit = NoneInt THEN settings.max_limit ELSE args.max_limit[1]

(***************************************************************************)
(* Properties of check_query                                               *)
(***************************************************************************)
\* C1 (as stated): every text that contains a whole-word DML/DDL keyword, in
\* any letter case and at any position, is rejected, and the rejection is the
\* Policy (DML/DDL) rejection.
C1_EveryKeywordTextIsPolicyRejected ==
    (calls >= 1 /\ ContainsDenyKeyword(args.query))
        => (Rejected(result) /\ result.error = "DML_DDL")

\* C1 (amended): every text that contains a whole-word DML/DDL keyword is
\* rejected; the rejection is the Policy (DML/DDL) rejection whenever the text
\* passes steps 1 to 4 (non-empty, no multi-statement, begins with SELECT).
C1_KeywordTextRejected ==
    (calls >= 1 /\ ContainsDenyKeyword(args.query))
        => /\ Rejected(result)
           /\ PassesSyntaxSteps(args.query) => result.error = "DML_DDL"

C1_Witness ==
    /\ calls >= 1
    /\ \E i \in 1..Len(args.query) : args.query[i] \in {"update", "Delete", "dRoP"}
    /\ ContainsDenyKeyword(args.query)
    /\ PassesSyntaxSteps(args.query)
    /\ Rejected(result)
    /\ result.error = "DML_DDL"

C3_OversizedLimitClamped ==
    [][(/\ CallStep
        /\ TrailingLimit(Body(args.query)) # ""
        /\ Exceeds(TrailingLimit(Body(args.query)), EffectiveMax)
        /\ PassesSyntaxSteps(args.query)
        /\ Accepted(check_query(WithoutLimit(Body(args.query)), args.service_id,
                                args.allow_subqueries, args.max_limit)))
        => /\ Accepted(result')
           /\ TrailingLimit(result'.query) \in NumLexemes \ {HugeNumeral}
           /\ IntValue(TrailingLimit(result'.query)) = EffectiveMax]_vars

\* C4: a trimmed text with more than one separator, or with one separator
\* that is not its last character, is rejected; a text whose only separator is
\* its last character is not rejected as multi-statement, and the accepted
\* text has no separator.
C4_SeparatorRule ==
    calls >= 1 =>
        LET t == Trimmed(args.query)
            n == count(t, ";")
        IN  /\ (n > 1 \/ (n = 1 /\ t[Len(t)] # ";")) => Rejected(result)
            /\ (n = 1 /\ t[Len(t)] = ";") =>
                  /\ result.error # "MULTIPLE_STATEMENTS"
                  /\ Accepted(result) => count(result.query, ";") = 0

C4_Witness ==
    /\ calls >= 1
    /\ count(Trimmed(args.query), ";") = 1
    /\ Trimmed(args.query)[Len(Trimmed(args.query))] = ";"
    /\ args.query[Len(args.query)] = " "
    /\ Accepted(result)
    /\ count(result.query, ";") = 0

\* C5 (as stated): when a query passes the syntax and policy steps and a
\* table identifier following FROM or JOIN is outside the allow-list, the
\* query is rejected and the message lists every offending table, sorted; no
\* accepted query has a FROM/JOIN table outside the allow-list.
C5_OffendingTablesRejected ==
    [][(CallStep /\ PassedPolicy(result'))
        => LET off == ReferencedTables(Body(args.query)) \ ALLOWED_TABLES
           IN  /\ off # {} => /\ Rejected(result')
                              /\ result'.error = "TABLE_NOT_ALLOWED"
                              /\ result'.names = sorted(off)
               /\ Accepted(result') => off = {}]_vars

\* C6 (as stated): a query past steps 1 to 8 is rejected at the table step
\* only when its tables minus the allow-list are not empty, and every
\* rejection is of kind Syntax, Policy, TableNotAllowed or ScopeRequired.
C6_TableStepOnlyForDisallowed ==
    [][(CallStep /\ Rejected(result'))
        => /\ KindOf(result'.error) \in SpecKinds
           /\ result'.error \in {"NO_TABLE", "TABLE_NOT_ALLOWED"} =>
                ReferencedTables(Body(args.query)) \ ALLOWED_TABLES # {}]_vars

\* C6 (amended): a query past steps 1 to 8 is rejected at the table step only
\* when no table can be identified after FROM or JOIN, or when its tables
\* minus the allow-list are not empty; every rejection is of kind Syntax,
\* Policy, TableNotAllowed or ScopeRequired, or is the no-table rejection.
C6_TableStepRejections ==
    [][(CallStep /\ Rejected(result'))
        => /\ KindOf(result'.error) \in SpecKinds \cup {"NoTableIdentified"}
           /\ result'.error = "TABLE_NOT_ALLOWED" =>
                /\ PassedPolicy(result')
                /\ ReferencedTables(Body(args.query)) \ ALLOWED_TABLES # {}
           /\ result'.error = "NO_TABLE" =>
                /\ PassedPolicy(result')
                /\ ReferencedTables(Body(args.query)) = {}]_vars

C6_Witness ==
    /\ calls >= 1
    /\ Rejected(result)
    /\ result.error = "NO_TABLE"
    /\ PassesSyntaxSteps(args.query)
    /\ ReferencedTables(Body(args.query)) = {}

\* C7 (as stated): when mandatory-scope tables are configured and the query
\* references one of them, the query is accepted only if it has the predicate
\* service_id = :service_id, and a query with a numeric literal or an IN form
\* is rejected (ScopeRequired) even if the predicate is present elsewhere.
C7_ScopeEnforced ==
    [][(/\ CallStep
        /\ SERVICE_SCOPED_TABLES # {}
        /\ ReferencedTables(Body(args.query)) \cap SERVICE_SCOPED_TABLES # {})
        => /\ Accepted(result') => SERVICE_ID_PLACEHOLDER_RE(Body(args.query))
           /\ (SERVICE_ID_NUMERIC_RE(Body(args.query))
               \/ SERVICE_ID_IN_RE(Body(args.query)))
                => /\ ~Accepted(result')
                   /\ (PassedPolicy(result')
                       /\ result'.error \notin {"NO_TABLE", "TABLE_NOT_ALLOWED"})
                        => KindOf(result'.error) = "ScopeRequired"]_vars

\* C8 (as stated): for every input text check_query returns a result, never
\* raises, and a rejected result has an error message and an empty query.
C8_NeverRaises ==
    calls >= 1 =>
        /\ Returned(result)
        /\ ~result.is_valid => (result.query = <<>> /\ result.error # "")

\* C9 (as stated): two calls with the same arguments return the same decision
\* and the same query text, whatever the process-wide state at each call.
C9_ArgumentsDetermineResult ==
    calls >= 2 =>
        /\ prevResult.outcome = result.outcome
        /\ prevResult.is_valid = result.is_valid
        /\ prevResult.query = result.query

(***************************************************************************)
(* agents/evidence.py: rows and _add_derived_metrics                       *)
(***************************************************************************)
\* A row maps every column name to a value; a key the dict does not have is
\* Absent.  Numbers are exact fractions n/d with d > 0.
Absent == [t |-> "absent", n |-> 0, d |-> 1]
Null == [t |-> "null", n |-> 0, d |-> 1]
Number(n) == [t |-> "num", n |-> n, d |-> 1]
\* a string holding a numeral, as DECIMAL columns arrive
NumeralText(n) == [t |-> "str", n |-> n, d |-> 1]
\* a string that float() cannot parse
Text == [t |-> "text", n |-> 0, d |-> 1]
\* float nan (the JSON literal NaN)
NaN == [t |-> "nan", n |-> 0, d |-> 1]
\* an int beyond the range of float (a JSON integer of 400 digits)
BigInt == [t |-> "bigint", n |-> 0, d |-> 1]
\* the string s, which float() cannot parse and which is no date
Str(s) == [t |-> "text", n |-> 0, d |-> 1, s |-> s]
\* the date string of day k of January 2024, "2024-01-01" for k = 1
DateText(k) == [t |-> "date", n |-> k, d |-> 1]

BaseColumns == {"impressions", "clicks", "cost", "conversions", "conversion_value"}
DerivedColumns == {"ctr", "cpc", "cvr", "cpa", "roas"}
Columns == BaseColumns \cup DerivedColumns \cup {"name"}

\* r.get(col)
Get(row, col) == IF row[col].t = "absent" THEN Null ELSE row[col]

\* _safe_float(x): a float (k = "float" or "nan"), None (k = "none"), or the
\* OverflowError of float() that the except clause does not catch
_safe_float(x) ==
    CASE x.t = "null" -> [k |-> "none", n |-> 0, d |-> 1]
      [] x.t \in {"num", "str"} -> [k |-> "float", n |-> x.n, d |-> x.d]
      [] x.t = "nan" -> [k |-> "nan", n |-> 0, d |-> 1]
      [] x.t \in {"text", "date"} -> [k |-> "none", n |-> 0, d |-> 1]
      [] x.t = "bigint" -> [k |-> "raise", n |-> 0, d |-> 1]

\* a / b for floats a and b, b > 0
Div(a, b) ==
    IF a.k = "nan" THEN NaN
    ELSE [t |-> "num", n |-> a.n * b.d, d |-> a.d * b.n]

\* the guard with >= in place of the truth test and >
DerivedGuard_ZeroAllowed(den, num) ==
    den.k = "float" /\ den.n >= 0 /\ num.k # "none"

\* "if den and den > 0 and num is not None"
DerivedGuard(den, num) ==
    /\ den.k = "nan" \/ (den.k = "float" /\ den.n # 0)
    /\ den.k = "float" /\ den.n > 0
    /\ num.k # "none"

\* the body of the loop of _add_derived_metrics for one row that raises
\* nothing: r = dict(row) and the five guarded assignments
DerivedRow(row) ==
    LET imp == _safe_float(Get(row, "impressions"))
        clk == _safe_float(Get(row, "clicks"))
        cost == _safe_float(Get(row, "cost"))
        conv == _safe_float(Get(row, "conversions"))
        convv == _safe_float(Get(row, "conversion_value"))
    IN  [c \in DOMAIN row |->
            IF c = "ctr" /\ DerivedGuard(imp, clk) THEN Div(clk, imp)
            ELSE IF c = "cpc" /\ DerivedGuard(clk, cost) THEN Div(cost, clk)
            ELSE IF c = "cvr" /\ DerivedGuard(clk, conv) THEN Div(conv, clk)
            ELSE IF c = "cpa" /\ DerivedGuard(conv, cost) THEN Div(cost, conv)
            ELSE IF c = "roas" /\ DerivedGuard(cost, convv) THEN Div(convv, cost)
            ELSE row[c]]

\* the loop body with r = row in place of r = dict(row)
InputRowAfter_NoCopy(row) == DerivedRow(row)

\* the row object of the input list after the loop body: the body assigns
\* to the copy r only
InputRowAfter(row) == row

\* a _safe_float call of the loop body raises for this row
RowRaises(row) == \E c \in BaseColumns : _safe_float(Get(row, c)).k = "raise"

\* _add_derived_metrics(data): the list of new rows, or an exception
_add_derived_metrics(rows) ==
    IF \E i \in 1..Len(rows) : RowRaises(rows[i])
    THEN [outcome |-> "raised", rows |-> <<>>]
    ELSE [outcome |-> "returned",
          rows |-> [i \in 1..Len(rows) |-> DerivedRow(rows[i])]]

(***************************************************************************)
(* Inputs: the row lists handed to _add_derived_metrics                    *)
(***************************************************************************)
\* rows of a list, and fields of a list that differ from the plain row
MaxRows == 2
MaxRowDeviations == 2

PlainRow ==
    [c \in Columns |->
        CASE c = "impressions" -> Number(10)
          [] c = "clicks" -> Number(4)
          [] c = "cost" -> Number(6)
          [] c = "conversions" -> Number(2)
          [] c = "conversion_value" -> Number(8)
          [] c = "name" -> Text
          [] OTHER -> Absent]

ColumnOrder ==
    <<"impressions", "clicks", "cost", "conversions", "conversion_value",
      "ctr", "cpc", "cvr", "cpa", "roas">>

\* the other values a column takes
Variants(c) ==
    IF c \in BaseColumns
    THEN {Absent, Null, Number(0), Number(0 - 3), NumeralText(5), Text, NaN,
          BigInt}
    ELSE {Null, Number(0)}

\* the fields of a list of n rows: <<row index, column>>
Fields(n) == (1..n) \X { ColumnOrder[k] : k \in 1..Len(ColumnOrder) }

RECURSIVE FieldSets(_, _)
\* the sets of at most dev fields of a list of n rows
FieldSets(n, dev) ==
    IF dev = 0 THEN {{}}
    ELSE LET fewer == FieldSets(n, dev - 1)
         IN  fewer \cup { S \cup {x} : S \in fewer, x \in Fields(n) }

\* the ways to give each field of S another value than the plain one
VariantChoices(S) ==
    { f \in [S -> Variants("impressions")] : \A x \in S : f[x] \in Variants(x[2]) }

\* the list of n plain rows with the fields of S replaced as f says
RowList(n, S, f) ==
    [i \in 1..n |->
        [c \in Columns |-> IF <<i, c>> \in S THEN f[<<i, c>>] ELSE PlainRow[c]]]

(***************************************************************************)
(* _add_derived_metrics as a state machine                                 *)
(***************************************************************************)
EvidenceInit ==
    /\ settings = ShippedSettings
    /\ ALLOWED_TABLES = ShippedAllowedTables
    /\ SERVICE_SCOPED_TABLES = {}
    /\ args = [query |-> <<>>, service_id |-> NoneInt,
               allow_subqueries |-> FALSE, max_limit |-> NoneInt]
    /\ calls = 0
    /\ result = NoResult
    /\ prevResult = NoResult
    /\ \E n \in 0..MaxRows : \E S \in FieldSets(n, MaxRowDeviations) :
          \E f \in VariantChoices(S) : data = RowList(n, S, f)
    /\ out = NoRows
    /\ derived = "pending"
    /\ call = NoCall
    /\ NoRun

\* out = _add_derived_metrics(data); the input list is only read
AddDerivedMetrics ==
    /\ derived = "pending"
    /\ derived' = _add_derived_metrics(data).outcome
    /\ out' = _add_derived_metrics(data).rows
    /\ data' = [i \in 1..Len(data) |-> InputRowAfter(data[i])]
    /\ call' = call
    /\ UNCHANGED checkerVars
    /\ UNCHANGED agentVars

EvidenceNext == AddDerivedMetrics

EvidenceSpec == EvidenceInit /\ [][EvidenceNext]_vars

(***************************************************************************)
(* Derived metrics: vocabulary of the properties                           *)
(***************************************************************************)
\* <<numerator column, denominator column>> of a derived field
Operands(f) ==
    CASE f = "ctr" -> <<"clicks", "impressions">>
      [] f = "cpc" -> <<"cost", "clicks">>
      [] f = "cvr" -> <<"conversions", "clicks">>
      [] f = "cpa" -> <<"cost", "conversions">>
      [] f = "roas" -> <<"conversion_value", "cost">>

\* the value is a number or a numeral, so that it coerces to a float
CoercesToNumber(v) == v.t \in {"num", "str", "nan"}

StrictlyPositive(v) == v.t \in {"num", "str"} /\ v.n > 0

\* both operands of f coerce to a number and the denominator is > 0
HasPrecondition(row, f) ==
    /\ CoercesToNumber(row[Operands(f)[1]])
    /\ CoercesToNumber(row[Operands(f)[2]])
    /\ StrictlyPositive(row[Operands(f)[2]])

\* v is the quotient of the operands of f in row
IsRatio(v, row, f) ==
    LET num == row[Operands(f)[1]]
        den == row[Operands(f)[2]]
    IN  IF num.t = "nan" THEN v.t = "nan"
        ELSE v.t = "num" /\ v.d # 0 /\ v.n * num.d * den.n = num.n * den.d * v.d

DerivedReturned == derived = "returned"

KeyOrder ==
    <<"campaign_id", "date", "day", "name", "impressions", "clicks", "cost",
      "conversions", "conversion_value", "total_cost", "id", "google_campaign",
      "campaign_name", "CTR", "ctr", "cpc", "cvr", "cpa", "roas">>

AnalysisColumns == { KeyOrder[k] : k \in 1..Len(KeyOrder) }

\* the dict with the items of f (a function from keys to values)
Row(f) == [c \in AnalysisColumns |-> IF c \in DOMAIN f THEN f[c] ELSE Absent]

\* "key in row"
HasKey(row, col) == row[col].t # "absent"

\* row.keys(), in dict order
Keys(row) == SelectSeq(KeyOrder, LAMBDA c : HasKey(row, c))

\* col.lower() on the keys above
ColLower(col) == IF col = "CTR" THEN "ctr" ELSE col

\* _get_label(col): the fixed labels, else the title-cased column name.
\* "<cost-ja>" stands for the Japanese label of cost, and so on.
_get_label(col) ==
    CASE ColLower(col) = "impressions" -> "<impressions-ja>"
      [] ColLower(col) = "clicks" -> "<clicks-ja>"
      [] ColLower(col) = "cost" -> "<cost-ja>"
      [] ColLower(col) = "conversions" -> "<conversions-ja>"
      [] ColLower(col) = "conversion_value" -> "<conversion-value-ja>"
      [] ColLower(col) = "ctr" -> "CTR"
      [] ColLower(col) = "cpc" -> "CPC"
      [] ColLower(col) = "cvr" -> "CVR"
      [] ColLower(col) = "cpa" -> "CPA"
      [] ColLower(col) = "roas" -> "ROAS"
      [] ColLower(col) = "date" -> "<date-ja>"
      [] col = "campaign_id" -> "Campaign Id"
      [] col = "day" -> "Day"
      [] col = "name" -> "Name"
      [] col = "total_cost" -> "Total Cost"
      [] col = "id" -> "Id"
      [] col = "google_campaign" -> "Google Campaign"
      [] col = "campaign_name" -> "Campaign Name"

(***************************************************************************)
(* Float arithmetic on the values of the model: exact fractions n/d, d > 0 *)
(***************************************************************************)
RECURSIVE GCD(_, _)
GCD(a, b) == IF b = 0 THEN a ELSE GCD(b, a % b)

Abs(n) == IF n < 0 THEN 0 - n ELSE n

\* the float n/d, in lowest terms
Frac(n, d) ==
    LET g == GCD(Abs(n), Abs(d))
        sign == IF d < 0 THEN 0 - 1 ELSE 1
    IN  [k |-> "float", n |-> sign * (n \div g), d |-> sign * (d \div g)]

Zero == Frac(0, 1)

\* float("nan"): every operation on it gives it, every comparison with it
\* is false
NaNFloat == [k |-> "nan", n |-> 0, d |-> 1]
IsNaN(a) == a.k = "nan"
Plus(a, b) ==
    IF IsNaN(a) \/ IsNaN(b) THEN NaNFloat
    ELSE Frac(a.n * b.d + b.n * a.d, a.d * b.d)
Minus(a, b) ==
    IF IsNaN(a) \/ IsNaN(b) THEN NaNFloat
    ELSE Frac(a.n * b.d - b.n * a.d, a.d * b.d)
Times(a, b) ==
    IF IsNaN(a) \/ IsNaN(b) THEN NaNFloat ELSE Frac(a.n * b.n, a.d * b.d)
\* a / b, b # 0
Quot(a, b) ==
    IF IsNaN(a) \/ IsNaN(b) THEN NaNFloat ELSE Frac(a.n * b.d, a.d * b.n)
\* a < b
Less(a, b) == ~IsNaN(a) /\ ~IsNaN(b) /\ a.n * b.d < b.n * a.d
\* a == b
Same(a, b) == ~IsNaN(a) /\ ~IsNaN(b) /\ a.n * b.d = b.n * a.d
\* a > 0
IsPositive(a) == ~IsNaN(a) /\ a.n > 0
\* a float as the value of a key
AsValue(a) == IF IsNaN(a) THEN NaN ELSE [t |-> "num", n |-> a.n, d |-> a.d]

RECURSIVE Sum(_)
\* sum(values)
Sum(values) ==
    IF values = <<>> THEN Zero ELSE Plus(Sum(Tail(values)), Head(values))

RECURSIVE Max(_)
\* max(values), values not empty: an item replaces the maximum of the
\* items before it when it is greater
Max(values) ==
    IF Len(values) = 1 THEN values[1]
    ELSE LET m == Max(SubSeq(values, 1, Len(values) - 1))
         IN  IF Less(m, values[Len(values)]) THEN values[Len(values)] ELSE m

RECURSIVE Min(_)
\* min(values), values not empty: an item replaces the minimum of the
\* items before it when it is less
Min(values) ==
    IF Len(values) = 1 THEN values[1]
    ELSE LET m == Min(SubSeq(values, 1, Len(values) - 1))
         IN  IF Less(values[Len(values)], m) THEN values[Len(values)] ELSE m

\* sum(values) / len(values), values not empty
Mean(values) == Quot(Sum(values), Frac(Len(values), 1))

\* the loop "v = _safe_float(row.get(col)); if v is not None: append":
\* the floats of column col, in row order; nan is a float
ValidValues(rows, col) ==
    LET idx == SelectSeq([i \in 1..Len(rows) |-> i],
                         LAMBDA i : _safe_float(Get(rows[i], col)).k \in {"float", "nan"})
    IN  [j \in 1..Len(idx) |->
            LET v == _safe_float(Get(rows[idx[j]], col))
            IN  IF v.k = "nan" THEN NaNFloat ELSE Frac(v.n, v.d)]

(***************************************************************************)
(* Inputs: named rows with a cost and a clicks column                      *)
(***************************************************************************)
MaxNamedRows == 3

RowNames == <<"EC_Search", "EC_Display", "SaaS_Brand", "SaaS_Search">>

CostValues == {Number(100), Number(300), NumeralText(200), Null}
ClickValues == {Number(10), Number(30), Number(0), Absent}

\* the rows named RowNames[1..n] with the given costs and clicks
NamedRows(n, costs, clicks) ==
    [i \in 1..n |->
        Row([name |-> Str(RowNames[i]), cost |-> costs[i], clicks |-> clicks[i]])]

\* the calls _add_derived_metrics(rows)
AddDerivedMetricsCalls ==
    \E n \in 0..MaxNamedRows :
        \E costs \in [1..n -> CostValues], clicks \in [1..n -> ClickValues] :
            call = [fn |-> "_add_derived_metrics",
                    rows |-> NamedRows(n, costs, clicks),
                    dimension |-> <<>>, metric_cols |-> <<>>]

\* _add_derived_metrics applied to the rows of the call
CallAddDerivedMetrics ==
    /\ call.fn = "_add_derived_metrics"
    /\ AddDerivedMetrics

Returns(fn, value) ==
    /\ call.fn = fn
    /\ derived = "pending"
    /\ derived' = "returned"
    /\ out' = value
    /\ data' = data
    /\ call' = call
    /\ UNCHANGED checkerVars
    /\ UNCHANGED agentVars

\* metric_cols[:k]
FirstCols(metric_cols, k) ==
    SubSeq(metric_cols, 1, IF Len(metric_cols) < k THEN Len(metric_cols) ELSE k)

\* the test "col in derived" without lower()
IsDerivedMetric_CaseSensitive(col) == col \in DerivedColumns

\* "col.lower() in derived"
IsDerivedMetric(col) == ColLower(col) \in DerivedColumns

\* the record of one column; the keys "sum", "mean", "max", "min" stand for
\* the Japanese keys of the code
AggregationRecord(values, col) ==
    IF IsDerivedMetric(col)
    THEN [mean |-> Mean(values), max |-> Max(values), min |-> Min(values)]
    ELSE [sum |-> Sum(values), mean |-> Mean(values),
          max |-> Max(values), min |-> Min(values)]

\* _calculate_aggregations(data, metric_cols): the dict from label to
\* record; a later column with the same label replaces the earlier record
_calculate_aggregations(rows, metric_cols) ==
    LET cols == FirstCols(metric_cols, 7)
        produced == { k \in 1..Len(cols) : ValidValues(rows, cols[k]) # <<>> }
        last(L) == CHOOSE k \in produced :
                      /\ _get_label(cols[k]) = L
                      /\ \A j \in produced : _get_label(cols[j]) = L => j <= k
    IN  [L \in { _get_label(cols[k]) : k \in produced } |->
            AggregationRecord(ValidValues(rows, cols[last(L)]), cols[last(L)])]

\* rows of the aggregation calls
MaxAggRows == 2

AggColumns == <<"cost", "total_cost", "cpc", "ctr", "CTR">>

\* the value row i has in a column when it has one: a number that grows
\* with i, or a numeral as DECIMAL columns arrive
AggValue(i, col) == IF col = "total_cost" THEN NumeralText(25) ELSE Number(10 * i)

AggMetricLists ==
    { <<>>, <<"cost">>, <<"cpc", "ctr", "CTR", "cost", "total_cost">>,
      <<"cpa", "roas", "cpc", "cvr", "ctr", "cost", "clicks", "total_cost">> }

\* which rows of a column hold null
NullPatterns == {"none", "all", "first", "last"}

\* row i of n holds null under the pattern
IsNullAt(pattern, i, n) ==
    \/ pattern = "all"
    \/ pattern = "first" /\ i = 1
    \/ pattern = "last" /\ i = n

\* the rows where nulls[k] says which rows hold null in column
\* AggColumns[k]; the other rows hold a value there
AggRows(n, nulls) ==
    [i \in 1..n |->
        [c \in AnalysisColumns |->
            IF \E k \in 1..Len(AggColumns) : AggColumns[k] = c
            THEN LET k == CHOOSE k \in 1..Len(AggColumns) : AggColumns[k] = c
                 IN  IF IsNullAt(nulls[k], i, n) THEN Null ELSE AggValue(i, c)
            ELSE Absent]]

\* the calls _calculate_aggregations(rows, metric_cols)
AggregationCalls ==
    \E n \in 0..MaxAggRows : \E metric_cols \in AggMetricLists :
        \E nulls \in [1..Len(AggColumns) -> NullPatterns] :
            call = [fn |-> "_calculate_aggregations", rows |-> AggRows(n, nulls),
                    dimension |-> <<>>, metric_cols |-> metric_cols]

CallCalculateAggregations ==
    Returns("_calculate_aggregations",
            _calculate_aggregations(data, call.metric_cols))

\* the columns of the call that get an aggregation record
Aggregated ==
    LET cols == FirstCols(call.metric_cols, 7)
    IN  { cols[k] : k \in { j \in 1..Len(cols) : ValidValues(data, cols[j]) # <<>> } }

\* the column is one of the five ratio-type derived metrics
RatioType(col) == ColLower(col) \in {"ctr", "cpc", "cvr", "cpa", "roas"}

AggregationsReturned == call.fn = "_calculate_aggregations" /\ derived = "returned"

\* C12: for every row set, the aggregation record of a ratio-type derived
\* metric column (ctr, cpc, cvr, cpa, roas) has mean, max and min but no
\* sum key; the record of every other aggregated metric has all four of
\* sum, mean, max and min.
C12_NoSumForRatioMetrics ==
    AggregationsReturned =>
        \A col \in Aggregated :
            /\ _get_label(col) \in DOMAIN out
            /\ DOMAIN out[_get_label(col)] =
                  IF RatioType(col) THEN {"mean", "max", "min"}
                  ELSE {"sum", "mean", "max", "min"}

\* C12 witness: one call has produced a record without sum for CTR and a
\* record with sum for cost.
C12_Witness ==
    /\ AggregationsReturned
    /\ {"CTR", "cost"} \subseteq Aggregated
    /\ "sum" \notin DOMAIN out[_get_label("CTR")]
    /\ "sum" \in DOMAIN out[_get_label("cost")]
    /\ Same(out[_get_label("cost")].sum, Frac(30, 1))

(***************************************************************************)
(* _generate_analysis                                                      *)
(***************************************************************************)
\* a function of evidence.py ends as res.outcome says ("returned" or
\* "raised"), with res.value when it returns
Ends(fn, res) ==
    /\ call.fn = fn
    /\ derived = "pending"
    /\ derived' = res.outcome
    /\ out' = res.value
    /\ data' = data
    /\ call' = call
    /\ UNCHANGED checkerVars
    /\ UNCHANGED agentVars

\* the result of a float division: ZeroDivisionError when b is zero
ZeroDivision == [k |-> "raise", n |-> 0, d |-> 1]
Divide(a, b) == IF ~IsNaN(b) /\ b.n = 0 THEN ZeroDivision ELSE Quot(a, b)

\* the guard of the ratio line with >= in place of >
RatioGuard_ZeroAllowed(mn) == ~IsNaN(mn) /\ mn.n >= 0

\* "if mn > 0"
RatioGuard(mn) == IsPositive(mn)

\* "if avg > 0"
DispersionGuard(avg) == IsPositive(avg)

\* sum((v - avg) ** 2 for v in values) / len(values)
Variance(values) ==
    LET avg == Mean(values)
        sq == [i \in 1..Len(values) |->
                 Times(Minus(values[i], avg), Minus(values[i], avg))]
    IN  Quot(Sum(sq), Frac(Len(values), 1))

\* cv > t for cv = (std / avg) * 100, std the square root of var, avg > 0:
\* compared on the squares
CvAbove(var, avg, t) ==
    LET bound == Times(Frac(t, 100), avg)
    IN  Less(Times(bound, bound), var)

\* the wording chosen for the coefficient of variation
Dispersion(var, avg) ==
    IF CvAbove(var, avg, 50) THEN "very high"
    ELSE IF CvAbove(var, avg, 30) THEN "high"
    ELSE IF CvAbove(var, avg, 15) THEN "moderate"
    ELSE "low"

\* the lines one column adds: each line is given by what its f-string
\* formats (label and max / min, or label and the wording)
AnalysisLines(rows, col) ==
    LET values == ValidValues(rows, col)
        mx == Max(values)
        mn == Min(values)
        avg == Mean(values)
    IN  IF Len(values) < 2 THEN <<>>
        ELSE (IF RatioGuard(mn)
              THEN <<[label |-> _get_label(col), kind |-> "ratio",
                      value |-> Divide(mx, mn)]>>
              ELSE <<>>)
             \o
             (IF DispersionGuard(avg)
              THEN <<[label |-> _get_label(col), kind |-> "dispersion",
                      value |-> Dispersion(Variance(values), avg)]>>
              ELSE <<>>)

RECURSIVE AnalysisOf(_, _)
\* the lines of the columns cols, in order
AnalysisOf(rows, cols) ==
    IF cols = <<>> THEN <<>>
    ELSE AnalysisLines(rows, Head(cols)) \o AnalysisOf(rows, Tail(cols))

\* _generate_analysis(data, metric_cols)
_generate_analysis(rows, metric_cols) ==
    LET lines == AnalysisOf(rows, FirstCols(metric_cols, 4))
    IN  IF \E i \in 1..Len(lines) :
              lines[i].kind = "ratio" /\ lines[i].value.k = "raise"
        THEN [outcome |-> "raised", value |-> <<>>]
        ELSE [outcome |-> "returned", value |-> lines]

\* rows of the analysis calls
MaxAnalysisRows == 3

\* the costs of a row; clicks is 0 in every row
AnalysisCosts ==
    {Number(0), Number(10), Number(20), Number(40), Number(0 - 10), Null, NaN}

AnalysisMetricLists ==
    { <<"cost">>, <<"clicks", "cost">>, <<"cpa", "roas", "cpc", "clicks", "cost">> }

\* the calls _generate_analysis(rows, metric_cols)
AnalysisCalls ==
    \E n \in 0..MaxAnalysisRows : \E metric_cols \in AnalysisMetricLists :
        \E costs \in [1..n -> AnalysisCosts] :
            call = [fn |-> "_generate_analysis",
                    rows |-> [i \in 1..n |->
                                Row([cost |-> costs[i], clicks |-> Number(0)])],
                    dimension |-> <<>>, metric_cols |-> metric_cols]

CallGenerateAnalysis ==
    Ends("_generate_analysis", _generate_analysis(data, call.metric_cols))

(***************************************************************************)
(* list.sort, str() and _generate_rankings                                 *)
(***************************************************************************)
\* list.sort(key=..., reverse=...) of CPython on a list of fewer than 64
\* elements whose keys are keys: the indices of the list in sorted order.
\* The list is one run: count_run finds the ordered prefix, a strictly
\* descending prefix is reversed, and binarysort inserts the other elements
\* one by one.  With reverse=True the list is reversed before and after.
\* The only comparison is "<" on the keys, which is false for nan; without
\* nan the result is the stable sort.
Reversed(seq) == [i \in 1..Len(seq) |-> seq[Len(seq) + 1 - i]]

RECURSIVE RunEnd(_, _, _, _)
\* the last position of the run that holds positions 1..i of seq
RunEnd(keys, seq, i, descending) ==
    IF i = Len(seq) THEN i
    ELSE IF Less(keys[seq[i + 1]], keys[seq[i]]) = descending
    THEN RunEnd(keys, seq, i + 1, descending)
    ELSE i

RECURSIVE InsertionPoint(_, _, _, _, _)
\* the binary search of binarysort for the pivot among positions l..r-1
InsertionPoint(keys, seq, pivot, l, r) ==
    IF l >= r THEN l
    ELSE LET p == l + ((r - l) \div 2)
         IN  IF Less(keys[pivot], keys[seq[p]])
             THEN InsertionPoint(keys, seq, pivot, l, p)
             ELSE InsertionPoint(keys, seq, pivot, p + 1, r)

RECURSIVE BinarySort(_, _, _)
\* binarysort: positions 1..start-1 of seq are sorted, the others are
\* inserted from the left
BinarySort(keys, seq, start) ==
    IF start > Len(seq) THEN seq
    ELSE LET l == InsertionPoint(keys, seq, seq[start], 1, start)
         IN  BinarySort(keys,
                        SubSeq(seq, 1, l - 1) \o <<seq[start]>>
                            \o SubSeq(seq, l, start - 1)
                            \o SubSeq(seq, start + 1, Len(seq)),
                        start + 1)

SortedIndices(keys, reverse) ==
    LET n == Len(keys)
        given == IF reverse THEN [i \in 1..n |-> n + 1 - i] ELSE [i \in 1..n |-> i]
        descending == n >= 2 /\ Less(keys[given[2]], keys[given[1]])
        run == IF n < 2 THEN n ELSE RunEnd(keys, given, 2, descending)
        ordered == IF descending
                   THEN Reversed(SubSeq(given, 1, run)) \o SubSeq(given, run + 1, n)
                   ELSE given
        sorted_run == IF n < 2 THEN given ELSE BinarySort(keys, ordered, run + 1)
    IN  IF reverse THEN Reversed(sorted_run) ELSE sorted_run

\* seq[:k]
Take(seq, k) == SubSeq(seq, 1, IF Len(seq) < k THEN Len(seq) ELSE k)

\* the text of day k of January 2024
DateString(k) == IF k < 10 THEN "2024-01-0" \o ToString(k) ELSE "2024-01-" \o ToString(k)

\* str(x) for the values a dimension column holds
StrOf(x) ==
    CASE x.t = "null" -> "None"
      [] x.t = "text" -> x.s
      [] x.t = "date" -> DateString(x.n)
      [] x.t \in {"num", "str"} /\ x.d = 1 -> ToString(x.n)

\* str(row.get(dimension, default))
NameOf(row, dimension, default) ==
    IF HasKey(row, dimension) THEN StrOf(row[dimension]) ELSE default

\* the rows with a float in column metric, in row order
ValidRows(rows, metric) ==
    SelectSeq(rows, LAMBDA r : _safe_float(Get(r, metric)).k \in {"float", "nan"})

\* "<unknown-ja>" stands for the Japanese default name of the code
UnknownName == "<unknown-ja>"

\* the ranking keeps k entries
RankingSize == 5

\* _generate_rankings(data, dimension, metric); dimension is <<>> for None
\* and <<col>> for a column
_generate_rankings(rows, dimension, metric) ==
    IF dimension = <<>> THEN <<>>
    ELSE LET valid == ValidRows(rows, metric)
             values == ValidValues(rows, metric)
             order == Take(SortedIndices(values, TRUE), RankingSize)
         IN  [i \in 1..Len(order) |->
                [rank |-> i,
                 name |-> NameOf(valid[order[i]], dimension[1], UnknownName),
                 metric |-> _get_label(metric),
                 value |-> values[order[i]]]]

\* rows of the ranking calls
MaxRankRows == 6

\* the value of the dimension column of the i-th row
DimensionValues ==
    <<Str("EC_Search"), Str("SaaS_Brand"), Str("EC_Display"), Str("Solo"),
      Absent, Str("_lead"), Null, Str("SaaS_Search")>>

RankValues == {Number(10), Number(30), Null, NaN}

Dimensions == {<<>>, <<"name">>}

\* the rows with the names of DimensionValues and values[i] in column metric
DimensionedRows(n, metric, values) ==
    [i \in 1..n |->
        [c \in AnalysisColumns |->
            IF c = "name" THEN DimensionValues[i]
            ELSE IF c = metric THEN values[i] ELSE Absent]]

\* the calls _generate_rankings(rows, dimension, "cost")
RankingCalls ==
    \E n \in 0..MaxRankRows : \E dimension \in Dimensions :
        \E values \in [1..n -> RankValues] :
            call = [fn |-> "_generate_rankings",
                    rows |-> DimensionedRows(n, "cost", values),
                    dimension |-> dimension, metric_cols |-> <<"cost">>]

CallGenerateRankings ==
    Returns("_generate_rankings",
            _generate_rankings(data, call.dimension, call.metric_cols[1]))

(***************************************************************************)
(* _calculate_share_analysis                                               *)
(***************************************************************************)
\* the dict {}
EmptyDict == <<>>

Hundred == Frac(100, 1)

\* "if total <= 0: return {}"
ShareTotalRejected(total) == ~IsNaN(total) /\ total.n <= 0

\* _calculate_share_analysis(data, dimension, metric)
_calculate_share_analysis(rows, dimension, metric) ==
    IF dimension = <<>> THEN [outcome |-> "returned", value |-> EmptyDict]
    ELSE LET valid == ValidRows(rows, metric)
             values == ValidValues(rows, metric)
             total == Sum(values)
             order == SortedIndices(values, TRUE)
             top_name == NameOf(valid[order[1]], dimension[1], UnknownName)
             top_share == Divide(values[order[1]], total)
             top3 == Sum([i \in 1..3 |-> values[order[i]]])
         IN  IF values = <<>> THEN [outcome |-> "returned", value |-> EmptyDict]
             ELSE IF ShareTotalRejected(total)
             THEN [outcome |-> "returned", value |-> EmptyDict]
             ELSE IF top_share.k = "raise" THEN [outcome |-> "raised", value |-> <<>>]
             ELSE IF Len(values) >= 3
             THEN [outcome |-> "returned",
                   value |-> [top_name |-> top_name,
                              top_share |-> Times(top_share, Hundred),
                              top3_share |-> Times(Quot(top3, total), Hundred)]]
             ELSE [outcome |-> "returned",
                   value |-> [top_name |-> top_name,
                              top_share |-> Times(top_share, Hundred)]]

\* rows of the share and category calls
MaxShareRows == 4

ShareValues == {Number(0), Number(10), Number(30), Number(0 - 10), Null, NaN}

\* the calls _calculate_share_analysis(rows, dimension, "cost")
ShareCalls ==
    \E n \in 0..MaxShareRows : \E dimension \in Dimensions :
        \E values \in [1..n -> ShareValues] :
            call = [fn |-> "_calculate_share_analysis",
                    rows |-> DimensionedRows(n, "cost", values),
                    dimension |-> dimension, metric_cols |-> <<"cost">>]

CallCalculateShareAnalysis ==
    Ends("_calculate_share_analysis",
         _calculate_share_analysis(data, call.dimension, call.metric_cols[1]))

(***************************************************************************)
(* _calculate_category_analysis                                            *)
(***************************************************************************)
\* name.split("_") for the names of the model
SplitUnderscore(name) ==
    CASE name = "EC_Search" -> <<"EC", "Search">>
      [] name = "EC_Display" -> <<"EC", "Display">>
      [] name = "SaaS_Brand" -> <<"SaaS", "Brand">>
      [] name = "SaaS_Search" -> <<"SaaS", "Search">>
      [] name = "_lead" -> <<"", "lead">>
      [] OTHER -> <<name>>

\* name.split("_")[0] if "_" in name else name
CategoryOf(name) ==
    IF Len(SplitUnderscore(name)) > 1 THEN SplitUnderscore(name)[1] ELSE name

\* "token in col" for a lower-case column name of the model
Contains(col, token) == col = token \/ (col = "total_cost" /\ token = "cost")

\* any(x in ml for x in ["cpa", "cpc", "cost"])
lower_is_better(metric) ==
    \E x \in {"cpa", "cpc", "cost"} : Contains(ColLower(metric), x)

RECURSIVE Distinct(_)
\* the members of seq in the order of their first occurrence
Distinct(seq) ==
    IF seq = <<>> THEN <<>>
    ELSE LET front == Distinct(SubSeq(seq, 1, Len(seq) - 1))
             last == seq[Len(seq)]
         IN  IF \E i \in 1..Len(front) : front[i] = last THEN front
             ELSE Append(front, last)

\* (worst_avg / best_avg) if best_avg > 0 else 0, where best_avg is the
\* lowest mean and worst_avg the highest
CategoryRatio(worst_avg, best_avg) ==
    IF IsPositive(best_avg) THEN Quot(worst_avg, best_avg) ELSE Zero

\* _calculate_category_analysis(data, dimension, metric)
_calculate_category_analysis(rows, dimension, metric) ==
    IF dimension = <<>> THEN EmptyDict
    ELSE LET valid == ValidRows(rows, metric)
             values == ValidValues(rows, metric)
             cat(i) == CategoryOf(NameOf(valid[i], dimension[1], ""))
             kept == SelectSeq([i \in 1..Len(valid) |-> i], LAMBDA i : cat(i) # "")
             \* the keys of cat_vals, in insertion order
             cats == Distinct([j \in 1..Len(kept) |-> cat(kept[j])])
             vals(c) == LET idx == SelectSeq(kept, LAMBDA i : cat(i) = c)
                        IN  [j \in 1..Len(idx) |-> values[idx[j]]]
             avgs == [j \in 1..Len(cats) |-> Mean(vals(cats[j]))]
             order == SortedIndices(avgs, FALSE)
             best_cat == cats[order[1]]
             best_avg == avgs[order[1]]
             worst_cat == cats[order[Len(order)]]
             worst_avg == avgs[order[Len(order)]]
         IN  IF Len(cats) < 2 THEN EmptyDict
             ELSE IF lower_is_better(metric)
             THEN [best |-> [name |-> best_cat, avg |-> best_avg],
                   worst |-> [name |-> worst_cat, avg |-> worst_avg,
                              ratio |-> CategoryRatio(worst_avg, best_avg)]]
             ELSE [best |-> [name |-> worst_cat, avg |-> worst_avg],
                   worst |-> [name |-> best_cat, avg |-> best_avg,
                              ratio |-> CategoryRatio(worst_avg, best_avg)]]

CategoryMetrics == {"cost", "conversions"}

\* the calls _calculate_category_analysis(rows, dimension, metric)
CategoryCalls ==
    \E n \in 0..MaxShareRows : \E dimension \in Dimensions :
        \E metric \in CategoryMetrics : \E values \in [1..n -> ShareValues] :
            call = [fn |-> "_calculate_category_analysis",
                    rows |-> DimensionedRows(n, metric, values),
                    dimension |-> dimension, metric_cols |-> <<metric>>]

CallCalculateCategoryAnalysis ==
    Returns("_calculate_category_analysis",
            _calculate_category_analysis(data, call.dimension, call.metric_cols[1]))

(***************************************************************************)
(* _is_date_like and _calculate_period_comparison                          *)
(***************************************************************************)
\* _is_date_like(x): x is a string of the form YYYY-MM-DD
_is_date_like(x) == x.t = "date"

\* the date column: "date" when the first row has that key, else the first
\* key of the first row that is named date or holds a date; <<>> for None
DateColumn(rows) ==
    IF rows = <<>> THEN <<>>
    ELSE IF HasKey(rows[1], "date") THEN <<"date">>
    ELSE LET found == SelectSeq(Keys(rows[1]),
                         LAMBDA c : ColLower(c) = "date" \/ _is_date_like(rows[1][c]))
         IN  IF found = <<>> THEN <<>> ELSE <<found[1]>>

\* len(rows) / 3 rounded up, in place of len(rows) // 3
DateThreshold_RoundedUp(n) == IF (n + 2) \div 3 > 3 THEN (n + 2) \div 3 ELSE 3

\* max(3, len(rows) // 3)
DateThreshold(n) == IF n \div 3 > 3 THEN n \div 3 ELSE 3

\* len(rows) / 2 rounded up, in place of len(rows) // 2
mid_RoundedUp(n) == (n + 1) \div 2

\* mid = len(rows) // 2
mid(n) == n \div 2

\* sum_metric(rs, col)
sum_metric(rs, col) == Sum(ValidValues(rs, col))

\* the entry of one column: change_pct is <<>> for None
PeriodMetric(prev, curr, col) ==
    LET prev_sum == sum_metric(prev, col)
        curr_sum == sum_metric(curr, col)
        change == Minus(curr_sum, prev_sum)
    IN  [prev |-> prev_sum, curr |-> curr_sum, change |-> change,
         change_pct |->
            IF IsNaN(prev_sum) THEN <<NaNFloat>>
            ELSE IF prev_sum.n # 0
            THEN <<Times(Quot(change, Frac(Abs(prev_sum.n), prev_sum.d)), Hundred)>>
            ELSE <<>>]

\* the labels the summary may mention, in its order
SummaryLabels ==
    <<"<cost-ja>", "<conversions-ja>", "ROAS", "CPA", "<clicks-ja>",
      "<impressions-ja>">>

\* the parts of the summary: each is given by the label and the percentage
\* its f-string formats
SummaryOf(metrics) ==
    LET shown == SelectSeq(SummaryLabels,
                    LAMBDA k : k \in DOMAIN metrics /\ metrics[k].change_pct # <<>>)
    IN  [j \in 1..Len(shown) |->
            [label |-> shown[j], change_pct |-> metrics[shown[j]].change_pct[1]]]

\* _calculate_period_comparison(data, metric_cols)
_calculate_period_comparison(data_rows, metric_cols) ==
    LET date_col == DateColumn(data_rows)
        rows0 == SelectSeq(data_rows, LAMBDA r : _is_date_like(Get(r, date_col[1])))
        order == SortedIndices([i \in 1..Len(rows0) |-> Frac(rows0[i][date_col[1]].n, 1)],
                               FALSE)
        rows == [i \in 1..Len(rows0) |-> rows0[order[i]]]
        unique_dates == Cardinality({ rows[i][date_col[1]] : i \in 1..Len(rows) })
        prev == SubSeq(rows, 1, mid(Len(rows)))
        curr == SubSeq(rows, mid(Len(rows)) + 1, Len(rows))
        cols == FirstCols(metric_cols, 5)
        last(L) == CHOOSE k \in 1..Len(cols) :
                      /\ _get_label(cols[k]) = L
                      /\ \A j \in 1..Len(cols) : _get_label(cols[j]) = L => j <= k
        metrics == [L \in { _get_label(cols[k]) : k \in 1..Len(cols) } |->
                      PeriodMetric(prev, curr, cols[last(L)])]
        base == [date_col |-> date_col[1],
                 prev_range |-> [start |-> StrOf(prev[1][date_col[1]]),
                                 end |-> StrOf(prev[Len(prev)][date_col[1]])],
                 curr_range |-> [start |-> StrOf(curr[1][date_col[1]]),
                                 end |-> StrOf(curr[Len(curr)][date_col[1]])],
                 metrics |-> metrics]
    IN  IF date_col = <<>> THEN EmptyDict
        ELSE IF Len(rows0) < 4 THEN EmptyDict
        ELSE IF unique_dates < DateThreshold(Len(rows)) THEN EmptyDict
        ELSE IF prev = <<>> \/ curr = <<>> THEN EmptyDict
        ELSE IF SummaryOf(metrics) = <<>> THEN base
        ELSE [date_col |-> base.date_col, prev_range |-> base.prev_range,
              curr_range |-> base.curr_range, metrics |-> base.metrics,
              summary |-> SummaryOf(metrics)]

\* rows of the period calls, and rows whose date is replaced
MaxPeriodRows == 12
MaxPeriodDeviations == 1

\* what stands in the date column of a row that has no date
NoDateValues == {Null, Str("n/a"), Absent}

DateColumns == {"date", "day"}

\* the cost of row i, whose date is day: ten times i, ten times the day,
\* or ten times the day with nothing spent on days 1 and 2
CostPatterns == {"by row", "by day", "late days"}

PeriodCost(pattern, i, day) ==
    IF pattern = "by row" THEN Number(10 * i)
    ELSE IF pattern = "by day" THEN Number(10 * day)
    ELSE IF day <= 2 THEN Number(0) ELSE Number(10 * day)

PeriodMetricLists ==
    { <<"cost">>, <<"clicks", "cost">>,
      <<"cpa", "roas", "cpc", "cvr", "ctr", "cost">> }

\* n rows over u days, the days running up from 1 again and again when the
\* cost goes by row and down from u otherwise; the rows of S, the first
\* row or the last, have one of NoDateValues in the date column
PeriodRows(n, u, col, pattern, S, f) ==
    [i \in 1..n |->
        LET day == IF pattern = "by row" THEN 1 + ((i - 1) % u)
                   ELSE u - ((i - 1) % u)
        IN  [c \in AnalysisColumns |->
                IF c = col THEN (IF i \in S THEN f[i] ELSE DateText(day))
                ELSE IF c = "cost" THEN PeriodCost(pattern, i, day)
                ELSE Absent]]

RECURSIVE SubsetsUpTo(_, _)
\* the subsets of S with at most k members
SubsetsUpTo(S, k) ==
    IF k = 0 THEN {{}}
    ELSE LET fewer == SubsetsUpTo(S, k - 1)
         IN  fewer \cup { T \cup {x} : T \in fewer, x \in S }

\* the calls _calculate_period_comparison(rows, metric_cols)
PeriodCalls ==
    \E n \in 0..MaxPeriodRows : \E u \in 1..(IF n = 0 THEN 1 ELSE n) :
        \E col \in DateColumns, pattern \in CostPatterns :
            \E metric_cols \in PeriodMetricLists :
                \E S \in SubsetsUpTo({1, n} \cap (1..n), MaxPeriodDeviations) :
                    \E f \in [S -> NoDateValues] :
                        call = [fn |-> "_calculate_period_comparison",
                                rows |-> PeriodRows(n, u, col, pattern, S, f),
                                dimension |-> <<>>, metric_cols |-> metric_cols]

CallCalculatePeriodComparison ==
    Returns("_calculate_period_comparison",
            _calculate_period_comparison(data, call.metric_cols))

(***************************************************************************)
(* _detect_dimension_and_metrics                                           *)
(***************************************************************************)
\* the names of DIMENSION_PRIORITY, in its order
DIMENSION_PRIORITY ==
    <<"campaign_name", "ad_group_name", "keyword_text", "query_text",
      "service_name", "campaign_type", "match_type", "status",
      "targeting_type", "targeting_value", "date", "name">>

\* the importance list of the metrics
MetricPriorityList ==
    <<"cpa", "roas", "cpc", "cvr", "ctr", "cost", "conversions", "clicks",
      "impressions", "conversion_value">>

\* metric_priority with "c == p" alone, without "p in c"
metric_priority_ExactOnly(col) ==
    LET hits == { i \in 1..Len(MetricPriorityList) :
                    ColLower(col) = MetricPriorityList[i] }
    IN  IF hits = {} THEN 100
        ELSE (CHOOSE i \in hits : \A j \in hits : i <= j) - 1

\* metric_priority(col): the index, from 0, of the first entry of the list
\* that the lower-case column name contains, or 100
metric_priority(col) ==
    LET hits == { i \in 1..Len(MetricPriorityList) :
                    Contains(ColLower(col), MetricPriorityList[i]) }
    IN  IF hits = {} THEN 100
        ELSE (CHOOSE i \in hits : \A j \in hits : i <= j) - 1

\* cl == "id" or cl.endswith("_id")
IsIdName(col) == col \in {"id", "campaign_id"}

\* cl.startswith("google_")
StartsWithGoogle(col) == col = "google_campaign"

\* the test of the loop without cl.startswith("google_")
IsIdColumn_IdOnly(col) == IsIdName(col)

\* cl == "id" or cl.endswith("_id") or cl.startswith("google_")
IsIdColumn(col) == IsIdName(col) \/ StartsWithGoogle(col)

\* the column is a dimension candidate because of its name or its date
IsDateColumn(row, col) == ColLower(col) = "date" \/ _is_date_like(row[col])

\* the columns of row whose value _safe_float is applied to
Examined(row) ==
    SelectSeq(Keys(row), LAMBDA c : ~IsIdColumn(c) /\ ~IsDateColumn(row, c))

\* _detect_dimension_and_metrics(row): dimension is <<>> for None
_detect_dimension_and_metrics(row) ==
    LET found == SelectSeq(Examined(row),
                     LAMBDA c : _safe_float(row[c]).k # "none")
        non_numeric_cols ==
            SelectSeq(Keys(row),
                LAMBDA c : /\ ~IsIdColumn(c)
                           /\ \/ IsDateColumn(row, c)
                              \/ _safe_float(row[c]).k = "none")
        \* lowers: the key of each lower-case name, the last one winning
        present == SelectSeq(DIMENSION_PRIORITY,
                      LAMBDA key : \E c \in AnalysisColumns :
                                       HasKey(row, c) /\ ColLower(c) = key)
        lowers(key) == LET same == SelectSeq(Keys(row), LAMBDA c : ColLower(c) = key)
                       IN  same[Len(same)]
        order == SortedIndices([i \in 1..Len(found) |-> Frac(metric_priority(found[i]), 1)],
                               FALSE)
    IN  [outcome |-> IF \E i \in 1..Len(Examined(row)) :
                            _safe_float(row[Examined(row)[i]]).k = "raise"
                     THEN "raised" ELSE "returned",
         dimension |-> IF present # <<>> THEN <<lowers(present[1])>>
                       ELSE IF non_numeric_cols # <<>> THEN <<non_numeric_cols[1]>>
                       ELSE <<>>,
         metrics |-> [i \in 1..Len(found) |-> found[order[i]]]]

(***************************************************************************)
(* _parse_sql_result and build_evidence                                    *)
(***************************************************************************)
\* The text handed to build_evidence: a prefix and a body.  The prefixes
\* are nothing, the row-count line execute_sql_node writes, and a log line
\* in square brackets; the bodies are nothing, a bracketed text that is no
\* JSON, a JSON array of elements, and a JSON array holding an integer of
\* more than INT_MAX_STR_DIGITS digits.
Prefixes == {"", "count line", "[log]"}
Bodies == {"none", "not JSON", "array", "array with huge integer"}

\* an element of the array is a row (a JSON object) or another JSON value
IsRow(e) == DOMAIN e = AnalysisColumns

\* _parse_sql_result(sql_result): the text from the first "[" to the last
\* "]" is decoded; JSONDecodeError gives []
_parse_sql_result(payload, elements) ==
    IF payload.body = "none" THEN [outcome |-> "returned", value |-> <<>>]
    ELSE IF payload.prefix = "[log]" \/ payload.body = "not JSON"
    THEN [outcome |-> "returned", value |-> <<>>]
    ELSE IF payload.body = "array with huge integer"
    THEN [outcome |-> "raised", value |-> <<>>]
    ELSE [outcome |-> "returned", value |-> elements]

\* the six collections of an Evidence, with the defaults of the dataclass
NoAnalyses ==
    [aggregations |-> EmptyDict, analysis |-> <<>>, rankings |-> <<>>,
     share_analysis |-> EmptyDict, category_analysis |-> EmptyDict,
     period_comparison |-> EmptyDict]

\* Evidence(question=question, sql=sql_query, row_count=..., ...)
Evidence(row_count, raw_data, found) ==
    [question |-> "question", sql |-> "sql", row_count |-> row_count,
     raw_data |-> raw_data, aggregations |-> found.aggregations,
     analysis |-> found.analysis, rankings |-> found.rankings,
     share_analysis |-> found.share_analysis,
     category_analysis |-> found.category_analysis,
     period_comparison |-> found.period_comparison]

BuildRaised == [outcome |-> "raised", value |-> <<>>]

\* metrics[0] replaced by the column named cost
PrimaryMetric_Cost(metrics) == "cost"

\* the metric of ranking, share and category analysis: metrics[0]
PrimaryMetric(metrics) == metrics[1]

\* build_evidence, steps 4-1 to 5: the Evidence of the rows, or the
\* exception of an analysis
BuildAnalyses(rows, dimension, metrics, analysis, share) ==
    IF (Len(rows) >= 2 /\ analysis.outcome = "raised")
       \/ (dimension # <<>> /\ share.outcome = "raised")
    THEN BuildRaised
    ELSE [outcome |-> "returned",
          value |-> Evidence(Len(rows), rows,
              [aggregations |-> _calculate_aggregations(rows, metrics),
               analysis |-> IF Len(rows) >= 2 THEN analysis.value ELSE <<>>,
               rankings |->
                   IF dimension # <<>>
                   THEN _generate_rankings(rows, dimension, PrimaryMetric(metrics))
                   ELSE <<>>,
               share_analysis |-> IF dimension # <<>> THEN share.value ELSE EmptyDict,
               category_analysis |->
                   IF dimension # <<>>
                   THEN _calculate_category_analysis(rows, dimension,
                                                     PrimaryMetric(metrics))
                   ELSE EmptyDict,
               period_comparison |-> _calculate_period_comparison(rows, metrics)])]

\* build_evidence from step 4 on, with the dimension and the metrics of
\* the first row; top are the columns _calculate_aggregations converts
BuildFromMetrics(rows, dimension, metrics, top) ==
    IF \E i \in 1..Len(rows), k \in 1..Len(top) :
           _safe_float(Get(rows[i], top[k])).k = "raise"
    THEN BuildRaised
    ELSE IF metrics = <<>>
    THEN [outcome |-> "returned", value |-> Evidence(Len(rows), rows, NoAnalyses)]
    ELSE BuildAnalyses(rows, dimension, metrics,
                       _generate_analysis(rows, metrics),
                       _calculate_share_analysis(rows, dimension,
                                                 PrimaryMetric(metrics)))

\* build_evidence from step 3 on, with what _detect_dimension_and_metrics
\* gives for the first row
BuildFromDetected(rows, detected) ==
    IF detected.outcome = "raised" THEN BuildRaised
    ELSE BuildFromMetrics(rows, detected.dimension, detected.metrics,
                          FirstCols(detected.metrics, 7))

\* build_evidence from step 2 on, with what _add_derived_metrics gives
BuildFromAdded(added) ==
    IF added.outcome = "raised" THEN BuildRaised
    ELSE BuildFromDetected(added.rows,
                           _detect_dimension_and_metrics(added.rows[1]))

\* build_evidence from step 2 on, for a non-empty list of rows
BuildFromRows(parsed) == BuildFromAdded(_add_derived_metrics(parsed))

\* build_evidence(sql_result, sql_query, question)
build_evidence(payload, elements) ==
    LET parsed == _parse_sql_result(payload, elements)
    IN  IF parsed.outcome = "raised" THEN BuildRaised
        ELSE IF parsed.value = <<>>
        THEN [outcome |-> "returned", value |-> Evidence(0, <<>>, NoAnalyses)]
        \* dict(row) raises for an element that is a number or null
        ELSE IF \E i \in 1..Len(parsed.value) : ~IsRow(parsed.value[i])
        THEN BuildRaised
        ELSE BuildFromRows(parsed.value)

\* the elements of the arrays: the named rows, with a cost that may be too
\* large for a float, and the number 5 in place of a row
MaxBuildRows == 3

BuildCostValues == {Number(100), Number(300), Null, BigInt}

BuildClickValues == {Number(10), Number(30), Absent}

BuildElements(n, costs, clicks, scalars) ==
    [i \in 1..n |->
        IF i \in scalars THEN Number(5)
        ELSE Row([name |-> Str(RowNames[i]), cost |-> costs[i], clicks |-> clicks[i]])]

\* the calls build_evidence(sql_result, sql_query, question)
BuildEvidenceCalls ==
    \/ \E prefix \in Prefixes, body \in Bodies \ {"array"} :
          call = [fn |-> "build_evidence", rows |-> <<>>, dimension |-> <<>>,
                  metric_cols |-> <<>>,
                  payload |-> [prefix |-> prefix, body |-> body]]
    \/ \E prefix \in Prefixes, n \in 0..MaxBuildRows :
          \E costs \in [1..n -> BuildCostValues],
             clicks \in [1..n -> BuildClickValues] :
              \E scalars \in SubsetsUpTo(1..n, 1) :
                  call = [fn |-> "build_evidence",
                          rows |-> BuildElements(n, costs, clicks, scalars),
                          dimension |-> <<>>, metric_cols |-> <<>>,
                          payload |-> [prefix |-> prefix, body |-> "array"]]

CallBuildEvidence ==
    Ends("build_evidence", build_evidence(call.payload, data))

(***************************************************************************)
(* C13: the metric of the ranking and of the share analysis                *)
(***************************************************************************)
\* the rows of the end-to-end example
ExampleRows ==
    <<Row([name |-> Str("EC_Search"), cost |-> Number(100), clicks |-> Number(10)]),
      Row([name |-> Str("EC_Display"), cost |-> Number(300), clicks |-> Number(30)])>>

\* build_evidence has returned an Evidence that holds rows
BuiltFromRows ==
    call.fn = "build_evidence" /\ derived = "returned" /\ out.row_count > 0

BuiltFromExample == BuiltFromRows /\ call.rows = ExampleRows

\* the cost aggregation of the example
ExampleCostAggregation ==
    /\ "<cost-ja>" \in DOMAIN out.aggregations
    /\ DOMAIN out.aggregations["<cost-ja>"] = {"sum", "mean", "max", "min"}
    /\ Same(out.aggregations["<cost-ja>"].sum, Frac(400, 1))
    /\ Same(out.aggregations["<cost-ja>"].mean, Frac(200, 1))
    /\ Same(out.aggregations["<cost-ja>"].max, Frac(300, 1))
    /\ Same(out.aggregations["<cost-ja>"].min, Frac(100, 1))

\* the ranking is the list of (name, value) pairs given, ranked from 1
RankingIs(names, values) ==
    /\ Len(out.rankings) = Len(names)
    /\ \A i \in 1..Len(names) :
          /\ out.rankings[i].rank = i
          /\ out.rankings[i].name = names[i]
          /\ Same(out.rankings[i].value, Frac(values[i], 1))

TopShareIs(n) ==
    /\ "top_share" \in DOMAIN out.share_analysis
    /\ Same(out.share_analysis.top_share, Frac(n, 1))

\* a column of the row that holds a number and is no id and no date
NumericColumn(row, col) ==
    /\ HasKey(row, col)
    /\ ~IsIdColumn(col)
    /\ ~IsDateColumn(row, col)
    /\ _safe_float(row[col]).k = "float"

\* position of a column in the row
ColumnPosition(row, col) ==
    CHOOSE i \in 1..Len(Keys(row)) : Keys(row)[i] = col

\* the numeric column of the row that comes first in the importance order
\* cpa, roas, cpc, cvr, ctr, cost, conversions, clicks, impressions,
\* conversion_value; of two columns of equal importance the one that comes
\* first in the row
MostImportant(row, col) ==
    /\ NumericColumn(row, col)
    /\ \A c \in AnalysisColumns :
          NumericColumn(row, c) /\ c # col =>
              \/ metric_priority(col) < metric_priority(c)
              \/ /\ metric_priority(col) = metric_priority(c)
                 /\ ColumnPosition(row, col) < ColumnPosition(row, c)

\* ranking and share analysis of the Evidence are those of the column
RankedAndSharedOn(col) ==
    /\ out.rankings = _generate_rankings(out.raw_data, <<"name">>, col)
    /\ out.share_analysis =
          _calculate_share_analysis(out.raw_data, <<"name">>, col).value

AnalysisEnded == call.fn = "_generate_analysis" /\ derived # "pending"

\* the columns _generate_analysis looks at
AnalysedColumns ==
    { call.metric_cols[k] : k \in 1..Len(FirstCols(call.metric_cols, 4)) }

\* the column has a valid value and every valid value of it is 0
AllZero(col) ==
    LET values == ValidValues(data, col)
    IN  values # <<>> /\ \A i \in 1..Len(values) : Same(values[i], Zero)

\* the analysis has a line of the kind for the column
HasLine(col, kind) ==
    \E i \in 1..Len(out) : out[i].label = _get_label(col) /\ out[i].kind = kind

\* C14: for every metric column whose values are all 0 (any number of
\* rows) _generate_analysis emits neither a max/min ratio line nor a
\* coefficient-of-variation line and no division by zero occurs; the ratio
\* line is emitted only when min > 0 and the dispersion line only when
\* mean > 0, and both only when there are at least 2 valid values.
C14_NoLinesForZeroColumns ==
    AnalysisEnded =>
        \A col \in AnalysedColumns :
            LET values == ValidValues(data, col)
            IN  /\ AllZero(col) =>
                      /\ derived = "returned"
                      /\ ~HasLine(col, "ratio")
                      /\ ~HasLine(col, "dispersion")
                /\ derived = "returned" /\ HasLine(col, "ratio") =>
                      Len(values) >= 2 /\ IsPositive(Min(values))
                /\ derived = "returned" /\ HasLine(col, "dispersion") =>
                      Len(values) >= 2 /\ IsPositive(Mean(values))

\* C14 witness: a call over rows where clicks is 0 in all of at least two
\* rows has returned lines for cost and none for clicks
C14_Witness ==
    /\ AnalysisEnded
    /\ derived = "returned"
    /\ {"clicks", "cost"} \subseteq AnalysedColumns
    /\ AllZero("clicks")
    /\ Len(ValidValues(data, "clicks")) >= 2
    /\ HasLine("cost", "ratio")
    /\ HasLine("cost", "dispersion")
    /\ ~HasLine("clicks", "ratio")

(***************************************************************************)
(* C15: the ranking                                                        *)
(***************************************************************************)
RankingsReturned == call.fn = "_generate_rankings" /\ derived = "returned"

\* the rows of the call with a valid value of the metric, and the values
RankedRows == ValidRows(data, call.metric_cols[1])

RankedValues == ValidValues(data, call.metric_cols[1])

\* the name the ranking gives to the i-th valid row
RankedName(i) == NameOf(RankedRows[i], call.dimension[1], UnknownName)

\* the valid rows have different names, so that an entry tells its row
NamesDiffer ==
    \A i, j \in 1..Len(RankedRows) : RankedName(i) = RankedName(j) => i = j

\* the valid row of the e-th entry
RowOfEntry(e) == CHOOSE i \in 1..Len(RankedRows) : RankedName(i) = out[e].name

Smaller(a, b) == IF a < b THEN a ELSE b

\* C15: for every row set, dimension and metric _generate_rankings returns
\* at most 5 entries, with ranks exactly 1..k without gaps and values
\* non-increasing in rank order, containing the k largest valid values,
\* rows of equal value in their original row order; it returns an empty
\* list when there is no dimension.
C15_TopFiveStableDescending ==
    RankingsReturned =>
        /\ call.dimension = <<>> => out = <<>>
        /\ call.dimension # <<>> /\ NamesDiffer =>
              /\ Len(out) = Smaller(5, Len(RankedRows))
              /\ \A e \in 1..Len(out) :
                    /\ out[e].rank = e
                    /\ \E i \in 1..Len(RankedRows) : RankedName(i) = out[e].name
                    /\ out[e].value = RankedValues[RowOfEntry(e)]
                    /\ out[e].metric = _get_label(call.metric_cols[1])
              /\ \A e, f \in 1..Len(out) :
                    e < f =>
                        /\ ~Less(out[e].value, out[f].value)
                        /\ RowOfEntry(e) # RowOfEntry(f)
                        /\ Same(out[e].value, out[f].value) =>
                               RowOfEntry(e) < RowOfEntry(f)
              /\ \A i \in 1..Len(RankedRows) :
                    (\A e \in 1..Len(out) : RowOfEntry(e) # i) =>
                        \A e \in 1..Len(out) :
                            /\ ~Less(out[e].value, RankedValues[i])
                            /\ Same(out[e].value, RankedValues[i]) =>
                                   RowOfEntry(e) < i

(***************************************************************************)
(* C16: the share analysis                                                 *)
(***************************************************************************)
ShareEnded == call.fn = "_calculate_share_analysis" /\ derived # "pending"

\* no valid value of the call is greater than the value of the i-th
LargestValue(i) ==
    \A j \in 1..Len(RankedValues) : ~Less(RankedValues[i], RankedValues[j])

\* the valid values at S are the Cardinality(S) largest
LargestValues(S) ==
    \A i \in S, j \in (1..Len(RankedValues)) \ S :
        ~Less(RankedValues[i], RankedValues[j])

\* a share: part / total x 100
ShareOf(part, total) == Times(Quot(part, total), Hundred)

\* C16: _calculate_share_analysis returns a non-empty result if and only
\* if a dimension exists, at least one row has a valid metric value and the
\* total of the valid values is > 0; then top_share = largest value / total
\* x 100 with top_name the name of that row, and top3_share = sum of the
\* three largest values / total x 100 is present if and only if at least 3
\* rows have a valid value.
C16_ShareOfLargest ==
    ShareEnded =>
        LET total == Sum(RankedValues)
        IN  /\ derived = "returned"
            /\ out # EmptyDict <=>
                  /\ call.dimension # <<>>
                  /\ RankedValues # <<>>
                  /\ IsPositive(total)
            /\ out # EmptyDict =>
                  /\ \E i \in 1..Len(RankedValues) :
                        /\ LargestValue(i)
                        /\ out.top_name = RankedName(i)
                        /\ out.top_share = ShareOf(RankedValues[i], total)
                  /\ "top3_share" \in DOMAIN out <=> Len(RankedValues) >= 3
                  /\ "top3_share" \in DOMAIN out =>
                        \E S \in SUBSET (1..Len(RankedValues)) :
                            /\ Cardinality(S) = 3
                            /\ LargestValues(S)
                            /\ \E s \in [1..3 -> S] :
                                  /\ \A a, b \in 1..3 : s[a] = s[b] => a = b
                                  /\ out.top3_share =
                                        ShareOf(Sum([a \in 1..3 |-> RankedValues[s[a]]]),
                                                total)

(***************************************************************************)
(* C17: the category analysis                                              *)
(***************************************************************************)
CategoryReturned ==
    call.fn = "_calculate_category_analysis" /\ derived = "returned"

\* the category of the i-th valid row ("" when its name gives none)
RankedCategory(i) == CategoryOf(NameOf(RankedRows[i], call.dimension[1], ""))

Categories == { RankedCategory(i) : i \in 1..Len(RankedRows) } \ {""}

\* the mean of the valid values of a category
CategoryMean(c) ==
    LET idx == SelectSeq([i \in 1..Len(RankedRows) |-> i],
                         LAMBDA i : RankedCategory(i) = c)
    IN  Mean([j \in 1..Len(idx) |-> RankedValues[idx[j]]])

LowestMean(c) ==
    c \in Categories /\ \A x \in Categories : ~Less(CategoryMean(x), CategoryMean(c))

HighestMean(c) ==
    c \in Categories /\ \A x \in Categories : ~Less(CategoryMean(c), CategoryMean(x))

\* worst / best of the reported pair, 0 when the denominator is not positive
ReportedRatio ==
    IF IsPositive(out.best.avg) THEN Quot(out.worst.avg, out.best.avg) ELSE Zero

\* C17: in category analysis with at least 2 distinct categories, for a
\* lower-is-better metric (name contains cpa, cpc or cost) best is the
\* category with the lowest mean, worst the one with the highest mean and
\* ratio = worst mean / best mean; for every other metric best is the
\* highest-mean category and worst the lowest-mean category, with ratio =
\* worst / best of the reported pair; the ratio is 0 instead of a division
\* fault when its denominator is not positive.
C17_BestWorstAndRatio ==
    CategoryReturned /\ call.dimension # <<>> /\ Cardinality(Categories) >= 2 =>
        /\ out # EmptyDict
        /\ out.best.avg = CategoryMean(out.best.name)
        /\ out.worst.avg = CategoryMean(out.worst.name)
        /\ IF lower_is_better(call.metric_cols[1])
           THEN LowestMean(out.best.name) /\ HighestMean(out.worst.name)
           ELSE HighestMean(out.best.name) /\ LowestMean(out.worst.name)
        /\ out.worst.ratio = ReportedRatio

(***************************************************************************)
(* C18 and C19: the period comparison                                      *)
(***************************************************************************)
PeriodReturned ==
    call.fn = "_calculate_period_comparison" /\ derived = "returned"

\* the rows of the call with a YYYY-MM-DD text in column col, in row order
DatedRows(col) == SelectSeq(data, LAMBDA r : Get(r, col).t = "date")

\* the dates of these rows
UniqueDates(col) == { Get(data[i], col) : i \in 1..Len(data) } \cap
                    { DateText(k) : k \in 1..MaxPeriodRows + 1 }

\* the call has a date column, at least 4 rows with a date in it, and at
\* least 3 and at least rows / 3 different dates, rows being the number
\* given
DateDensity(rows) ==
    /\ DateColumn(data) # <<>>
    /\ LET col == DateColumn(data)[1]
       IN  /\ Len(DatedRows(col)) >= 4
           /\ Cardinality(UniqueDates(col)) >= 3
           /\ 3 * Cardinality(UniqueDates(col)) >= rows

\* rows // 3 * 3: the largest multiple of 3 that is at most rows
FloorToThree(rows) == rows - (rows % 3)

\* the number of rows with a date in the date column
DatedCount == Len(DatedRows(DateColumn(data)[1]))

PeriodActive == PeriodReturned /\ out # EmptyDict

\* the rows of the call with a date in the date column of the result
DatedIndices == { i \in 1..Len(data) : Get(data[i], out.date_col).t = "date" }

\* the place of a dated row when the dated rows are sorted ascending by
\* date, rows of one date in row order
PlaceByDate(i) ==
    1 + Cardinality({ j \in DatedIndices :
                        \/ data[j][out.date_col].n < data[i][out.date_col].n
                        \/ /\ data[j][out.date_col].n = data[i][out.date_col].n
                           /\ j < i })

\* the row is in the previous half: one of the first floor(n / 2)
InPreviousHalf(i) == PlaceByDate(i) <= Cardinality(DatedIndices) \div 2

\* the sum of the valid values of the column over one half
HalfSum(col, previous) ==
    LET idx == SelectSeq([i \in 1..Len(data) |-> i],
                         LAMBDA i : i \in DatedIndices /\ InPreviousHalf(i) = previous)
    IN  Sum(ValidValues([j \in 1..Len(idx) |-> data[idx[j]]], col))

\* the metric columns the comparison reports
ComparedColumns ==
    { call.metric_cols[k] : k \in 1..Len(FirstCols(call.metric_cols, 5)) }

\* change / |prev| x 100
ChangePercent(change, prev) ==
    Times(Quot(change, Frac(Abs(prev.n), prev.d)), Hundred)

BuildEnded == call.fn = "build_evidence" /\ derived # "pending"

Collections ==
    {"aggregations", "analysis", "rankings", "share_analysis",
     "category_analysis", "period_comparison"}

\* C20: build_evidence never raises for any input payload: an empty,
\* rejected or malformed payload (no JSON array, undecodable JSON, a JSON
\* array whose elements are not row mappings, rows with missing or
\* non-numeric values) yields an Evidence with all collections present,
\* and with row_count 0 and empty collections when no row was decoded.
C20_BuildNeverRaises ==
    BuildEnded =>
        /\ derived = "returned"
        /\ Collections \subseteq DOMAIN out
        /\ out.row_count = 0 => \A c \in Collections : out[c] = <<>>

(***************************************************************************)
(* Evidence.to_prompt                                                      *)
(***************************************************************************)
\* The text to_prompt returns is the list parts joined by newlines; the
\* model keeps the list.  A part is one of the three basic parts, the
\* header of a section, or a line of its body.
Basic(section, content) == [kind |-> "basic", section |-> section, content |-> content]
Header(section) == [kind |-> "header", section |-> section]
Line(section, content) == [kind |-> "line", section |-> section, content |-> content]

\* f"{v:.2f}" and f"{v:.1f}": the float written with that many decimals
Fixed(v, places) == [float |-> v, places |-> places]

\* the labels of the columns, ordered as build_evidence orders the metric
\* columns before it fills the aggregations dict
LabelsInOrder ==
    LET order == SortedIndices([i \in 1..Len(KeyOrder) |->
                                   Frac(metric_priority(KeyOrder[i]), 1)], FALSE)
    IN  Distinct([i \in 1..Len(KeyOrder) |-> _get_label(KeyOrder[order[i]])])

\* self.aggregations.items(): the keys in insertion order
Items(d) == SelectSeq(LabelsInOrder, LAMBDA L : L \in DOMAIN d)

\* the parts of the aggregation section
AggregationParts(e) ==
    IF e.aggregations = EmptyDict THEN <<>>
    ELSE <<Header("aggregations")>> \o
         [j \in 1..Len(Items(e.aggregations)) |->
            LET metric == Items(e.aggregations)[j]
                values == e.aggregations[metric]
            IN  Line("aggregations",
                     [metric |-> metric,
                      values |-> [k \in DOMAIN values |-> Fixed(values[k], 2)]])]

AnalysisParts(e) ==
    IF e.analysis = <<>> THEN <<>>
    ELSE <<Header("analysis")>> \o
         [j \in 1..Len(e.analysis) |-> Line("analysis", e.analysis[j])]

RankingParts(e) ==
    IF e.rankings = <<>> THEN <<>>
    ELSE <<Header("rankings")>> \o
         [j \in 1..Len(e.rankings) |->
            Line("rankings",
                 [rank |-> e.rankings[j].rank, name |-> e.rankings[j].name,
                  metric |-> e.rankings[j].metric,
                  value |-> Fixed(e.rankings[j].value, 2)])]

ShareParts(e) ==
    IF e.share_analysis = EmptyDict THEN <<>>
    ELSE <<Header("share_analysis"),
           Line("share_analysis",
                [top_name |-> e.share_analysis.top_name,
                 top_share |-> Fixed(e.share_analysis.top_share, 1)])>> \o
         (IF "top3_share" \in DOMAIN e.share_analysis
          THEN <<Line("share_analysis",
                      [top3_share |-> Fixed(e.share_analysis.top3_share, 1)])>>
          ELSE <<>>)

CategoryParts(e) ==
    IF e.category_analysis = EmptyDict THEN <<>>
    ELSE <<Header("category_analysis")>> \o
         (IF "best" \in DOMAIN e.category_analysis
          THEN <<Line("category_analysis",
                      [best |-> e.category_analysis.best.name,
                       avg |-> Fixed(e.category_analysis.best.avg, 2)])>>
          ELSE <<>>) \o
         (IF "worst" \in DOMAIN e.category_analysis
          THEN <<Line("category_analysis",
                      [worst |-> e.category_analysis.worst.name,
                       avg |-> Fixed(e.category_analysis.worst.avg, 2)])>>
          ELSE <<>>)

\* the header is appended for every non-empty dict, the line only for a
\* dict with the key "summary"
PeriodParts(e) ==
    IF e.period_comparison = EmptyDict THEN <<>>
    ELSE <<Header("period_comparison")>> \o
         (IF "summary" \in DOMAIN e.period_comparison
          THEN <<Line("period_comparison", e.period_comparison.summary)>>
          ELSE <<>>)

\* Evidence.to_prompt(self)
to_prompt(e) ==
    <<Basic("question", e.question), Basic("sql", e.sql),
      Basic("row_count", e.row_count)>>
    \o AggregationParts(e) \o AnalysisParts(e) \o RankingParts(e)
    \o ShareParts(e) \o CategoryParts(e) \o PeriodParts(e)

\* rows of the Evidence objects handed to to_prompt
MaxPromptRows == 5

PromptCosts == {Number(0), Number(10), Number(30), Null}

\* n rows with a cost; named, they have the names of RowNames again and
\* again; dated, row i has day i
PromptRows(n, named, dated, costs) ==
    [i \in 1..n |->
        [c \in AnalysisColumns |->
            IF c = "name" /\ named THEN Str(RowNames[1 + ((i - 1) % Len(RowNames))])
            ELSE IF c = "date" /\ dated THEN DateText(i)
            ELSE IF c = "cost" THEN costs[i]
            ELSE Absent]]

ArrayPayload == [prefix |-> "", body |-> "array"]

\* the calls build_evidence(...).to_prompt(): the Evidence is the one
\* build_evidence returns for the rows
ToPromptCalls ==
    \E n \in 0..MaxPromptRows, named \in BOOLEAN, dated \in BOOLEAN :
        \E costs \in [1..n -> PromptCosts] :
            call = [fn |-> "to_prompt",
                    rows |-> PromptRows(n, named, dated, costs),
                    dimension |-> <<>>, metric_cols |-> <<>>]

\* the Evidence of the call
PromptEvidence == build_evidence(ArrayPayload, call.rows).value

CallToPrompt == Returns("to_prompt", to_prompt(PromptEvidence))

(***************************************************************************)
(* C21: the sections of the text                                           *)
(***************************************************************************)
PromptReturned == call.fn = "to_prompt" /\ derived = "returned"

\* the section of the text that renders each collection
HasHeader(section) ==
    \E i \in 1..Len(out) : out[i] = Header(section)

\* every header of the text has a line of its section right after it
HeadersHaveBodies ==
    \A i \in 1..Len(out) :
        out[i].kind = "header" =>
            /\ i < Len(out)
            /\ out[i + 1].kind = "line"
            /\ out[i + 1].section = out[i].section

\* C21: in the text of to_prompt each analysis section (aggregation,
\* analysis, ranking, share, category, period comparison) appears if and
\* only if the corresponding analysis has data, and every section header
\* that appears is followed by at least one body line.
C21_SectionsHaveBodies ==
    PromptReturned =>
        /\ \A c \in Collections : HasHeader(c) <=> PromptEvidence[c] # <<>>
        /\ HeadersHaveBodies

(***************************************************************************)
(* Inputs: the sample rows handed to _detect_dimension_and_metrics         *)
(***************************************************************************)
\* columns a sample row has at most
MaxDetectColumns == 3

DetectColumns ==
    {"id", "campaign_id", "google_campaign", "campaign_name", "date", "day",
     "name", "cost", "total_cost", "cpa"}

\* a number, a text, a date, and an integer beyond the range of float
DetectValues == {Number(5), Str("abc"), DateText(1), BigInt}

\* the calls _detect_dimension_and_metrics(row)
DetectCalls ==
    \E S \in SubsetsUpTo(DetectColumns, MaxDetectColumns) :
        \E f \in [S -> DetectValues] :
            call = [fn |-> "_detect_dimension_and_metrics", rows |-> <<Row(f)>>,
                    dimension |-> <<>>, metric_cols |-> <<>>]

CallDetectDimensionAndMetrics ==
    LET detected == _detect_dimension_and_metrics(data[1])
    IN  Ends("_detect_dimension_and_metrics",
             [outcome |-> detected.outcome,
              value |-> [dimension |-> detected.dimension,
                         metrics |-> detected.metrics]])

(***************************************************************************)
(* C22: the dimension                                                      *)
(***************************************************************************)
DetectReturned == call.fn = "_detect_dimension_and_metrics" /\ derived = "returned"

\* the sample row of the call
Sample == call.rows[1]

\* the members of a list
Members(seq) == { seq[i] : i \in 1..Len(seq) }

\* place of a column name in DIMENSION_PRIORITY, 0 when it is not listed
PriorityPlace(col) ==
    IF \E k \in 1..Len(DIMENSION_PRIORITY) : DIMENSION_PRIORITY[k] = ColLower(col)
    THEN CHOOSE k \in 1..Len(DIMENSION_PRIORITY) : DIMENSION_PRIORITY[k] = ColLower(col)
    ELSE 0

\* the columns of the row whose name is in the priority list
PriorityMatches(row) == { c \in Members(Keys(row)) : PriorityPlace(c) > 0 }

\* the match that comes earliest in the priority list
EarliestMatch(row) ==
    CHOOSE c \in PriorityMatches(row) :
        \A e \in PriorityMatches(row) : PriorityPlace(c) <= PriorityPlace(e)

\* the value is a date or does not coerce to a number
DateOrNoNumber(v) == _is_date_like(v) \/ ~CoercesToNumber(v)

\* the first column, in column order, outside the ignored ones that holds
\* a date or no number: <<>> when there is none
FirstCandidate(row, Ignored(_)) ==
    LET cands == SelectSeq(Keys(row),
                     LAMBDA c : ~Ignored(c) /\ DateOrNoNumber(row[c]))
    IN  IF cands = <<>> THEN <<>> ELSE <<cands[1]>>

\* the dimension and the metrics of the call follow the selection rule
\* with the given ignored columns
SelectsDimension(Ignored(_)) ==
    /\ \A c \in Members(Keys(Sample)) :
          Ignored(c) => out.dimension # <<c>> /\ c \notin Members(out.metrics)
    /\ IF PriorityMatches(Sample) # {}
       THEN out.dimension = <<EarliestMatch(Sample)>>
       ELSE out.dimension = FirstCandidate(Sample, Ignored)

AnalysisInit ==
    /\ settings = ShippedSettings
    /\ ALLOWED_TABLES = ShippedAllowedTables
    /\ SERVICE_SCOPED_TABLES = {}
    /\ args = [query |-> <<>>, service_id |-> NoneInt,
               allow_subqueries |-> FALSE, max_limit |-> NoneInt]
    /\ calls = 0
    /\ result = NoResult
    /\ prevResult = NoResult
    /\ \/ AddDerivedMetricsCalls
       \/ AggregationCalls
       \/ AnalysisCalls
       \/ RankingCalls
       \/ ShareCalls
       \/ CategoryCalls
       \/ PeriodCalls
       \/ BuildEvidenceCalls
       \/ ToPromptCalls
       \/ DetectCalls
    /\ data = call.rows
    /\ out = NoRows
    /\ derived = "pending"
    /\ NoRun

AnalysisNext ==
    \/ CallAddDerivedMetrics
    \/ CallCalculateAggregations
    \/ CallGenerateAnalysis
    \/ CallGenerateRankings
    \/ CallCalculateShareAnalysis
    \/ CallCalculateCategoryAnalysis
    \/ CallCalculatePeriodComparison
    \/ CallBuildEvidence
    \/ CallToPrompt
    \/ CallDetectDimensionAndMetrics

AnalysisSpec == AnalysisInit /\ [][AnalysisNext]_vars

(***************************************************************************)
(* agents/sql_agent.py and agents/nodes.py: the agent graph               *)
(***************************************************************************)
None == <<>>

\* the questions put to ask(): one that names the weather and one that
\* does not
Questions == {"cost by campaign", "cost and weather in tokyo"}

\* any(keyword in question for keyword in weather_keywords)
NamesWeather(question) == question = "cost and weather in tokyo"

\* initial_state of ask()
InitialState(question) ==
    [question |-> question, sql_query |-> <<>>, checked_query |-> <<>>,
     sql_result |-> "", answer |-> "", error |-> None, error_type |-> None,
     retry_count |-> 0, needs_weather |-> FALSE, weather_unavailable |-> FALSE]

\* the SQL texts the language model answers with: two that check_query
\* accepts, three that it rejects, and one whose LIMIT numeral int()
\* refuses to convert
GeneratedQueries ==
    { <<"SELECT", " ", "a", " ", "FROM", " ", "campaigns">>,
      <<"SELECT", " ", "a", " ", "FROM", " ", "campaigns", " ", "LIMIT", " ", "2000">>,
      <<"SELECT", " ", "a", " ", "FROM", " ", "secret">>,
      <<"DROP", " ", "a", " ", "FROM", " ", "campaigns">>,
      <<>>,
      <<"SELECT", " ", "a", " ", "FROM", " ", "campaigns", " ", "LIMIT", " ", HugeNumeral>> }

\* the largest settings.max_retries a deployment of the model configures
MaxConfiguredRetries == 4

\* check_query_result as if every check had succeeded
check_query_result_Success(s) == "success"

\* check_query_result(state)
check_query_result(s) ==
    IF s.error # None
    THEN IF s.retry_count < settings.max_retries THEN "retry" ELSE "error"
    ELSE "success"

\* check_execute_result(state)
check_execute_result(s) ==
    IF s.error # None
    THEN IF s.retry_count < settings.max_retries THEN "retry" ELSE "error"
    ELSE IF s.needs_weather THEN "fetch_weather" ELSE "generate_answer"

\* the retry limit written into the edge function of execute_sql
WiredRetryLimit == 3

\* the lambda build_graph wires after execute_sql
AfterExecuteSql(s) ==
    IF s.error # None /\ s.retry_count >= WiredRetryLimit THEN "error"
    ELSE IF s.error # None THEN "retry"
    ELSE IF s.needs_weather THEN "fetch_weather" ELSE "generate_answer"

\* the mapping of the conditional edges after check_query
CheckQueryEdges ==
    [success |-> "execute_sql", retry |-> "generate_sql", error |-> "handle_error"]

\* the mapping of the conditional edges after execute_sql
ExecuteSqlEdges ==
    [fetch_weather |-> "fetch_weather", generate_answer |-> "generate_answer",
     retry |-> "generate_sql", error |-> "handle_error"]

\* agent.invoke(initial_state) with some settings.max_retries
AgentInit ==
    /\ settings \in { [ShippedSettings EXCEPT !.max_retries = m] :
                        m \in 0..MaxConfiguredRetries }
    /\ ALLOWED_TABLES = ShippedAllowedTables
    /\ SERVICE_SCOPED_TABLES = {}
    /\ args = [query |-> <<>>, service_id |-> NoneInt,
               allow_subqueries |-> FALSE, max_limit |-> NoneInt]
    /\ calls = 0
    /\ result = NoResult
    /\ prevResult = NoResult
    /\ data = NoRows
    /\ out = NoRows
    /\ derived = "pending"
    /\ call = NoCall
    /\ node = "check_weather_needed"
    /\ \E question \in Questions : state = InitialState(question)
    /\ generated = 0

\* a node has run: the state it returns and the node its edge leads to
Ran(next_state, next_node) ==
    /\ state' = next_state
    /\ node' = next_node
    /\ UNCHANGED checkerVars
    /\ UNCHANGED evidenceVars

\* check_weather_needed_node
check_weather_needed_node ==
    /\ node = "check_weather_needed"
    /\ generated' = generated
    /\ Ran([state EXCEPT !.needs_weather = NamesWeather(state.question),
                         !.weather_unavailable = FALSE],
           "generate_sql")

\* generate_sql_node: the answer of the language model becomes sql_query
generate_sql_node ==
    /\ node = "generate_sql"
    /\ generated' = generated + 1
    /\ \E sql \in GeneratedQueries :
          Ran([state EXCEPT !.sql_query = sql, !.error = None,
                            !.error_type = None],
              "check_query")

\* check_query_node and the conditional edges after it; an exception of
\* check_query ends agent.invoke
check_query_node ==
    /\ node = "check_query"
    /\ generated' = generated
    /\ \E checked \in {check_query(state.sql_query, NoneInt, FALSE, NoneInt)} :
          LET returned ==
                  IF checked.is_valid
                  THEN [state EXCEPT !.checked_query = checked.query,
                                     !.error = None, !.error_type = None]
                  ELSE [state EXCEPT !.checked_query = <<>>,
                                     !.error = <<checked.error>>,
                                     !.error_type = <<"check">>,
                                     !.retry_count = state.retry_count + 1]
          IN  IF checked.outcome = "raised" THEN Ran(state, "raised")
              ELSE Ran(returned, CheckQueryEdges[check_query_result(returned)])

\* execute_sql_node and the conditional edges after it: the database
\* returns rows or an error
execute_sql_node ==
    /\ node = "execute_sql"
    /\ generated' = generated
    /\ \E success \in BOOLEAN :
          LET returned ==
                  IF success
                  THEN [state EXCEPT !.sql_result = "rows", !.error = None,
                                     !.error_type = None]
                  ELSE [state EXCEPT !.sql_result = "",
                                     !.error = <<"database error">>,
                                     !.error_type = <<"execute">>,
                                     !.retry_count = state.retry_count + 1]
          IN  Ran(returned, ExecuteSqlEdges[AfterExecuteSql(returned)])

\* fetch_weather_node: no node of this graph sets weather_dates
fetch_weather_node ==
    /\ node = "fetch_weather"
    /\ generated' = generated
    /\ Ran(IF ~state.needs_weather \/ state.weather_unavailable THEN state
           ELSE [state EXCEPT !.weather_unavailable = TRUE],
           "generate_answer_with_weather")

generate_answer_node ==
    /\ node = "generate_answer"
    /\ generated' = generated
    /\ Ran([state EXCEPT !.answer = "answer"], "END")

generate_answer_with_weather_node ==
    /\ node = "generate_answer_with_weather"
    /\ generated' = generated
    /\ Ran([state EXCEPT !.answer = "answer with weather"], "END")

handle_error_node ==
    /\ node = "handle_error"
    /\ generated' = generated
    /\ Ran([state EXCEPT !.answer = "error message"], "END")

AgentNext ==
    \/ check_weather_needed_node
    \/ generate_sql_node
    \/ check_query_node
    \/ execute_sql_node
    \/ fetch_weather_node
    \/ generate_answer_node
    \/ generate_answer_with_weather_node
    \/ handle_error_node

AgentSpec == AgentInit /\ [][AgentNext]_vars

\* check_query_node can run exactly when it is the due node
CheckQueryDue == node = "check_query"

\* weak fairness of check_query_node, its enabling condition written out
CheckQueryRuns == []<>(~CheckQueryDue) \/ []<><<check_query_node>>_vars

\* the graph runs a node whenever one is due
AgentLiveSpec ==
    /\ AgentSpec
    /\ WF_vars(check_weather_needed_node)
    /\ WF_vars(generate_sql_node)
    /\ CheckQueryRuns
    /\ WF_vars(execute_sql_node)
    /\ WF_vars(fetch_weather_node)
    /\ WF_vars(generate_answer_node)
    /\ WF_vars(generate_answer_with_weather_node)
    /\ WF_vars(handle_error_node)

(***************************************************************************)
(* C23: the decisions after check_query and after execute_sql              *)
(***************************************************************************)
\* the step of a node that returned with an error in the state
FailedStep(name) == node = name /\ node' # "raised" /\ state'.error # None

\* retry below settings.max_retries, error from there on
RetryOrError ==
    node' = IF state'.retry_count < settings.max_retries
            THEN "generate_sql" ELSE "handle_error"

\* C23: after a failed query check and after a failed SQL execution alike
\* the next step is retry (back to generate_sql) when retry_count is below
\* settings.max_retries and error (handle_error) otherwise; the decision
\* of the wired graph after execute_sql agrees with check_execute_result
\* for every state and every configured max_retries.
C23_RoutesFollowMaxRetries ==
    [][/\ FailedStep("check_query") => RetryOrError
       /\ FailedStep("execute_sql") => RetryOrError
       /\ node = "execute_sql" => node' = ExecuteSqlEdges[check_execute_result(state')]
      ]_vars

(***************************************************************************)
(* C24: termination of a run                                               *)
(***************************************************************************)
\* a run is over at END; an exception that no node catches ends it without
\* reaching END
Over == node \in {"END", "raised"}

\* the largest number of generate_sql invocations the two limits allow
GenerateSqlBound ==
    IF settings.max_retries > WiredRetryLimit
    THEN settings.max_retries ELSE WiredRetryLimit

\* generate_sql runs a bounded number of times and every run is over
\* eventually
RunsEndOrRaise == [](generated <= GenerateSqlBound) /\ <>Over

\* C24: every run of the agent workflow terminates: whatever sequence of
\* check failures and execution failures occurs, the run reaches END
\* through generate_answer, generate_answer_with_weather or handle_error
\* after a bounded number of generate_sql invocations.
C24_EveryRunReachesEnd ==
    [](generated <= GenerateSqlBound) /\ <>(node = "END")

(***************************************************************************)
(* C25: only checked queries are executed                                  *)
(***************************************************************************)
\* what check_query returns for the SQL of state s, as check_query_node
\* calls it
Checked(s) == check_query(s.sql_query, NoneInt, FALSE, NoneInt)

\* state s holds the accepted, normalized text of its own SQL and no error
HoldsAcceptedQuery(s) ==
    /\ Checked(s).outcome = "returned"
    /\ Checked(s).is_valid
    /\ s.checked_query = Checked(s).query
    /\ s.checked_query # <<>>
    /\ s.error = None

\* C25: execute_sql is only ever invoked immediately after a check_query
\* step that accepted the current SQL: at each execution checked_query is
\* the non-empty normalized text check_query returns for the current
\* sql_query and error is None; a rejected query is never executed.
C25_OnlyCheckedQueriesExecuted ==
    [][node' = "execute_sql" =>
          node = "check_query" /\ HoldsAcceptedQuery(state')]_vars

\* a query is due for execution that the check rewrote, after an earlier
\* failure of the run
C25_Witness ==
    /\ node = "execute_sql"
    /\ state.retry_count > 0
    /\ state.checked_query # state.sql_query

(***************************************************************************)
(* C26: the LIMIT of an accepted query and the maximum                     *)
(***************************************************************************)
\* the returned text ends in a LIMIT clause whose value is at most the
\* maximum in force
LimitWithinMax(r) ==
    /\ TrailingLimit(r.query) # ""
    /\ ~Exceeds(TrailingLimit(r.query), EffectiveMax)

\* C26: for every query that check_query accepts, with any max_limit
\* argument, the value of the trailing LIMIT clause of the returned text is
\* less than or equal to max_limit.
C26_AcceptedLimitWithinMax ==
    [][(CallStep /\ Accepted(result')) => LimitWithinMax(result')]_vars

(***************************************************************************)
(* C27: check_query applied to its own accepted output                     *)
(***************************************************************************)
\* check_query of the text r.query under the policy of the call
CheckedAgain(r) ==
    check_query(r.query, args.service_id, args.allow_subqueries,
                args.max_limit)

\* the accepted text is accepted again and comes back as it is
FixedPoint(r) == Accepted(CheckedAgain(r)) /\ CheckedAgain(r).query = r.query

\* C27: check_query is idempotent on its accepted output: for every query
\* accepted with result text q', check_query(q') with the same policy is
\* also accepted and returns exactly q'.
C27_AcceptedOutputIsFixedPoint ==
    [][(CallStep /\ Accepted(result')) => FixedPoint(result')]_vars

(***************************************************************************)
(* C28: one role for each column                                           *)
(***************************************************************************)
\* no member of the list is in it twice
NoRepeats(seq) == \A i, j \in 1..Len(seq) : seq[i] = seq[j] => i = j

\* the dimension is no metric
DimensionIsNoMetric ==
    out.dimension # <<>> => out.dimension[1] \notin Members(out.metrics)

\* C28: each column gets exactly one role: the dimension column returned by
\* _detect_dimension_and_metrics is never also a member of the returned
\* metric list, and no column appears twice in the metric list.
C28_OneRolePerColumn ==
    DetectReturned => DimensionIsNoMetric /\ NoRepeats(out.metrics)

(***************************************************************************)
(* C29: the shares as percentages                                          *)
(***************************************************************************)
\* a <= b
AtMost(a, b) == Less(a, b) \/ Same(a, b)

\* _calculate_share_analysis returned a result that is not empty
ShareGiven ==
    /\ call.fn = "_calculate_share_analysis"
    /\ derived = "returned"
    /\ out # EmptyDict

\* C29: whenever _calculate_share_analysis returns a non-empty result,
\* 0 < top_share <= 100, and when top3_share is present
\* top_share <= top3_share <= 100.
C29_SharesArePercentages ==
    ShareGiven =>
        /\ Less(Zero, out.top_share)
        /\ AtMost(out.top_share, Hundred)
        /\ "top3_share" \in DOMAIN out =>
              /\ AtMost(out.top_share, out.top3_share)
              /\ AtMost(out.top3_share, Hundred)

(***************************************************************************)
(* C30: the order of the metrics                                           *)
(***************************************************************************)
\* place of a column in the importance list: that of the first entry its
\* lower-case name contains, after the whole list when it contains none
ImportancePlace(col) ==
    IF \E k \in 1..Len(MetricPriorityList) :
           Contains(ColLower(col), MetricPriorityList[k])
    THEN CHOOSE k \in 1..Len(MetricPriorityList) :
            /\ Contains(ColLower(col), MetricPriorityList[k])
            /\ \A j \in 1..(k - 1) :
                  ~Contains(ColLower(col), MetricPriorityList[j])
    ELSE Len(MetricPriorityList) + 1

\* the list holds the numeric columns of the row, each once, by importance
\* and among equals in column order
OrderedByImportance(metrics, row) ==
    /\ Members(metrics) = { c \in Members(Keys(row)) : NumericColumn(row, c) }
    /\ \A i, j \in 1..Len(metrics) :
          i < j =>
              \/ ImportancePlace(metrics[i]) < ImportancePlace(metrics[j])
              \/ /\ ImportancePlace(metrics[i]) = ImportancePlace(metrics[j])
                 /\ ColumnPosition(row, metrics[i]) < ColumnPosition(row, metrics[j])

\* ranking, share and category analysis of the Evidence are those of the
\* column
AnalysedOn(col) ==
    /\ RankedAndSharedOn(col)
    /\ out.category_analysis =
          _calculate_category_analysis(out.raw_data, <<"name">>, col)

\* C30: the metric list returned by _detect_dimension_and_metrics is
\* ordered by the importance list (cpa, roas, cpc, cvr, ctr, cost,
\* conversions, clicks, impressions, conversion_value), columns matching no
\* entry last and columns of equal importance in first-seen column order;
\* the primary metric of ranking, share and category analysis is the first
\* of this list.
C30_MetricsByImportance ==
    /\ DetectReturned => OrderedByImportance(out.metrics, Sample)
    /\ BuiltFromRows =>
          \A col \in AnalysisColumns :
              (/\ NumericColumn(out.raw_data[1], col)
               /\ \A c \in AnalysisColumns :
                     NumericColumn(out.raw_data[1], c) =>
                         \/ ImportancePlace(col) < ImportancePlace(c)
                         \/ /\ ImportancePlace(col) = ImportancePlace(c)
                            /\ ColumnPosition(out.raw_data[1], col)
                                  <= ColumnPosition(out.raw_data[1], c))
              => AnalysedOn(col)

\* C30 witness: three numeric columns, two of them of the importance of
\* cost, come back with cpa first and cost before total_cost
C30_Witness ==
    /\ DetectReturned
    /\ Keys(Sample) = <<"cost", "total_cost", "cpa">>
    /\ out.metrics = <<"cpa", "cost", "total_cost">>

====
